---- MODULE Spec2Model ----
(***************************************************************************)
(* A model of the WZ archive core of the editor: the AES keystream         *)
(* generator (wz-crypto.js), the binary reader and writer, the property    *)
(* list parser, the archive parser (wz-file.js) and the archive writer     *)
(* (repackWzFile).  Bytes are integers 0..255, byte buffers are sequences  *)
(* of bytes, strings are sequences of UTF-16 code units, and unsigned      *)
(* 32-bit words are kept as four little-endian bytes so that the           *)
(* arithmetic modulo 2^32 of the offset obfuscation is exact.              *)
(***************************************************************************)
EXTENDS Integers, Sequences, FiniteSets, TLC

VARIABLES
    gens,     \* keystream spec: generator id -> WzMutableKey
    obs,      \* keystream spec: the last byte returned by at(index)
    cIn,      \* codec specs: the value handed to the writer
    cBuf,     \* codec specs: the bytes the writer emitted (<<>> before the write)
    cOut,     \* codec specs: what the reader returned (<<>> before the read)
    cKey,     \* codec specs: the WzMutableKey shared by writer and reader
    doc,      \* archive spec: the root node of the tree the editor holds
    src,      \* archive spec: the archive the tree was parsed from (<<>> if built)
    out,      \* archive spec: the last result of repackWzFile (<<>> before a repack)
    back,     \* archive spec: the re-parse of that result (<<>> before the re-parse)
    opens,    \* archive spec: how many archives the editor has opened
    sKids,    \* interning spec: the properties of the image being edited
    sImg,     \* interning spec: the serialized image (<<>> before it is written)
    sBack,    \* interning spec: the strings read back from it (<<>> before)
    dDoc,     \* detection spec: the tree that is saved
    dOut,     \* detection spec: the archive repackWzFile emitted (<<>> before)
    dGot,     \* detection spec: what parseWzFile made of it (<<>> before)
    pxIn,     \* pixel spec: the inflated payload and the size of the canvas
    pxOut,    \* pixel spec: the RGBA bytes decoded from it (<<>> before)
    nParent,  \* node spec: the parent reference of every node (NoParent: null)
    nKids,    \* node spec: the child sequence of every node
    nStack,   \* node spec: UndoStack.stack
    nPtr,     \* node spec: UndoStack.pointer
    lSrc,     \* loading spec: the archive that was opened
    lDoc,     \* loading spec: the tree of it
    lCall,    \* loading spec: the last parse_image call: its path and the node before it (<<>> before)
    zIn,      \* inflate spec: expectedSize and what the decompression stream will do
    zRun,     \* inflate spec: the call of inflate: where it stands, totalRead, result
    wConn,    \* server spec: the sockets and the WSClient of each
    wAll,     \* server spec: RoomManager.allClients
    wRooms,   \* server spec: RoomManager.rooms
    wAuth,    \* server spec: RoomManager.mobAuthority
    wSent,    \* server spec: the messages the last event sent
    wLast,    \* server spec: the last event and the server before it (<<>> before)
    uStack,   \* undo spec: UndoStack.stack
    uPtr,     \* undo spec: UndoStack.pointer
    uMax,     \* undo spec: UndoStack.maxSize
    uLast,    \* undo spec: the last call and the length and pointer before it
    dDrops,   \* drop spec: RoomManager.mapDrops
    dNext,    \* drop spec: RoomManager._nextDropId
    dNow,     \* drop spec: Date.now()
    dSent,    \* drop spec: the messages the sockets took so far
    dIds,     \* drop spec: the drop ids addDrop handed out so far
    dLast,    \* drop spec: the last event and the number of messages sent before it
    qIn,      \* long spec: the value of the long property in the tree
    qBuf,     \* long spec: the bytes written for it (<<>> before the write)
    qOut,     \* long spec: what the parser read back (<<>> before the read)
    pIn,      \* parser spec: the bytes of a property list and how they were built
    pOut      \* parser spec: what parsePropertyList made of them (<<>> before)

keyVars   == <<gens, obs>>
codecVars == <<cIn, cBuf, cOut, cKey>>
archVars  == <<doc, src, out, back, opens>>
internVars == <<sKids, sImg, sBack>>
detectVars == <<dDoc, dOut, dGot>>
pixelVars == <<pxIn, pxOut>>
nodeVars == <<nParent, nKids, nStack, nPtr>>
loadVars == <<lSrc, lDoc, lCall>>
inflateVars == <<zIn, zRun>>
wsVars == <<wConn, wAll, wRooms, wAuth, wSent, wLast>>
undoVars == <<uStack, uPtr, uMax, uLast>>
dropVars == <<dDrops, dNext, dNow, dSent, dIds, dLast>>
longVars == <<qIn, qBuf, qOut>>
parseVars == <<pIn, pOut>>
\* The variables of the specifications up to the archive one, and of those
\* that follow it.
earlyVars == <<keyVars, codecVars, archVars>>
laterVars == <<internVars, detectVars, pixelVars, nodeVars, loadVars, inflateVars, wsVars, undoVars, dropVars, longVars, parseVars>>
\* What the actions of a later specification leave alone.
exceptIntern == <<earlyVars, detectVars, pixelVars, nodeVars, loadVars, inflateVars, wsVars, undoVars, dropVars, longVars, parseVars>>
exceptDetect == <<earlyVars, internVars, pixelVars, nodeVars, loadVars, inflateVars, wsVars, undoVars, dropVars, longVars, parseVars>>
exceptPixel == <<earlyVars, internVars, detectVars, nodeVars, loadVars, inflateVars, wsVars, undoVars, dropVars, longVars, parseVars>>
exceptNode == <<earlyVars, internVars, detectVars, pixelVars, loadVars, inflateVars, wsVars, undoVars, dropVars, longVars, parseVars>>
exceptLoad == <<earlyVars, internVars, detectVars, pixelVars, nodeVars, inflateVars, wsVars, undoVars, dropVars, longVars, parseVars>>
exceptInflate == <<earlyVars, internVars, detectVars, pixelVars, nodeVars, loadVars, wsVars, undoVars, dropVars, longVars, parseVars>>
exceptWs == <<earlyVars, internVars, detectVars, pixelVars, nodeVars, loadVars, inflateVars, undoVars, dropVars, longVars, parseVars>>
exceptUndo == <<earlyVars, internVars, detectVars, pixelVars, nodeVars, loadVars, inflateVars, wsVars, dropVars, longVars, parseVars>>
exceptDrop == <<earlyVars, internVars, detectVars, pixelVars, nodeVars, loadVars, inflateVars, wsVars, undoVars, longVars, parseVars>>
exceptLong == <<earlyVars, internVars, detectVars, pixelVars, nodeVars, loadVars, inflateVars, wsVars, undoVars, dropVars, parseVars>>
exceptParse == <<earlyVars, internVars, detectVars, pixelVars, nodeVars, loadVars, inflateVars, wsVars, undoVars, dropVars, longVars>>
vars      == <<gens, obs, cIn, cBuf, cOut, cKey, doc, src, out, back, opens, laterVars>>

-----------------------------------------------------------------------------
(* Bounds of the model.                                                    *)

\* AES blocks per keystream batch.  The source generates BATCH_SIZE = 4096
\* bytes (256 blocks) per batch; the model keeps the batch logic of
\* ensureKeySize and scales the batch down so that TLC can compute the AES
\* chain in every state.
BatchBlocks == 2

\* Keystream spec: the requests stay within this many batches.
MaxKeyBatches == 2

-----------------------------------------------------------------------------
(* Bit operations on bytes.                                                *)

RECURSIVE XorBits(_, _, _)
XorBits(a, b, n) ==
    IF n = 0 THEN 0
    ELSE (((a % 2) + (b % 2)) % 2) + 2 * XorBits(a \div 2, b \div 2, n - 1)

\* a ^ b on bytes, tabulated once.
XorTab == [a \in 0..255 |-> [b \in 0..255 |-> XorBits(a, b, 8)]]

Xor(a, b) == XorTab[a][b]

\* a ^ b on 16-bit values.
Xor16(a, b) == Xor(a % 256, b % 256) + 256 * Xor(a \div 256, b \div 256)

\* Forces a function over 1..n into a tuple (TLC otherwise keeps it lazy).
Tup(f) == <<>> \o f

\* n copies of c.
Rep(c, n) == Tup([i \in 1..n |-> c])

-----------------------------------------------------------------------------
(* wz-crypto.js: AES-256, encrypt only.                                    *)

SBOX == <<
    99, 124, 119, 123, 242, 107, 111, 197, 48, 1, 103, 43, 254, 215, 171, 118,
    202, 130, 201, 125, 250, 89, 71, 240, 173, 212, 162, 175, 156, 164, 114, 192,
    183, 253, 147, 38, 54, 63, 247, 204, 52, 165, 229, 241, 113, 216, 49, 21,
    4, 199, 35, 195, 24, 150, 5, 154, 7, 18, 128, 226, 235, 39, 178, 117,
    9, 131, 44, 26, 27, 110, 90, 160, 82, 59, 214, 179, 41, 227, 47, 132,
    83, 209, 0, 237, 32, 252, 177, 91, 106, 203, 190, 57, 74, 76, 88, 207,
    208, 239, 170, 251, 67, 77, 51, 133, 69, 249, 2, 127, 80, 60, 159, 168,
    81, 163, 64, 143, 146, 157, 56, 245, 188, 182, 218, 33, 16, 255, 243, 210,
    205, 12, 19, 236, 95, 151, 68, 23, 196, 167, 126, 61, 100, 93, 25, 115,
    96, 129, 79, 220, 34, 42, 144, 136, 70, 238, 184, 20, 222, 94, 11, 219,
    224, 50, 58, 10, 73, 6, 36, 92, 194, 211, 172, 98, 145, 149, 228, 121,
    231, 200, 55, 109, 141, 213, 78, 169, 108, 86, 244, 234, 101, 122, 174, 8,
    186, 120, 37, 46, 28, 166, 180, 198, 232, 221, 116, 31, 75, 189, 139, 138,
    112, 62, 181, 102, 72, 3, 246, 14, 97, 53, 87, 185, 134, 193, 29, 158,
    225, 248, 152, 17, 105, 217, 142, 148, 155, 30, 135, 233, 206, 85, 40, 223,
    140, 161, 137, 13, 191, 230, 66, 104, 65, 153, 45, 15, 176, 84, 187, 22
>>

RCON == <<1, 2, 4, 8, 16, 32, 64, 128, 27, 54>>

RECURSIVE gmulLoop(_, _, _, _)
gmulLoop(a, b, p, i) ==
    IF i = 8 THEN p
    ELSE LET p2 == IF b % 2 = 1 THEN Xor(p, a) ELSE p
             a1 == (a * 2) % 256
             a2 == IF a >= 128 THEN Xor(a1, 27) ELSE a1
         IN  gmulLoop(a2, b \div 2, p2, i + 1)

gmul(a, b) == gmulLoop(a, b, 0, 0)

Gmul2 == [a \in 0..255 |-> gmul(a, 2)]
Gmul3 == [a \in 0..255 |-> gmul(a, 3)]

\* A round-key word is <<b24, b16, b8, b0>>, most significant byte first.
XorWord(u, v) == <<Xor(u[1], v[1]), Xor(u[2], v[2]), Xor(u[3], v[3]), Xor(u[4], v[4])>>

RECURSIVE expandLoop(_, _)
expandLoop(W, i) ==
    IF i = 60 THEN W
    ELSE LET t == W[i]
             temp == IF i % 8 = 0
                     THEN <<Xor(SBOX[t[2] + 1], RCON[i \div 8]), SBOX[t[3] + 1],
                            SBOX[t[4] + 1], SBOX[t[1] + 1]>>
                     ELSE IF i % 8 = 4
                     THEN <<SBOX[t[1] + 1], SBOX[t[2] + 1], SBOX[t[3] + 1], SBOX[t[4] + 1]>>
                     ELSE t
         IN  expandLoop(Append(W, XorWord(W[i - 7], temp)), i + 1)

expandKey256(key) ==
    expandLoop([i \in 1..8 |-> <<key[4 * i - 3], key[4 * i - 2], key[4 * i - 1], key[4 * i]>>], 8)

AddRoundKey(block, W, round) ==
    Tup([i \in 1..16 |-> Xor(block[i], W[round * 4 + ((i - 1) \div 4) + 1][((i - 1) % 4) + 1])])

SubBytes(block) == Tup([i \in 1..16 |-> SBOX[block[i] + 1]])

\* Row r of the column-major state is rotated left by r columns.
ShiftRows(block) ==
    Tup([i \in 1..16 |-> LET r == (i - 1) % 4
                             c == (i - 1) \div 4
                         IN  block[r + 4 * ((c + r) % 4) + 1]])

MixColumns(block) ==
    Tup([i \in 1..16 |->
        LET r  == (i - 1) % 4
            c  == (i - 1) \div 4
            s0 == block[4 * c + 1]
            s1 == block[4 * c + 2]
            s2 == block[4 * c + 3]
            s3 == block[4 * c + 4]
        IN  CASE r = 0 -> Xor(Xor(Gmul2[s0], Gmul3[s1]), Xor(s2, s3))
              [] r = 1 -> Xor(Xor(s0, Gmul2[s1]), Xor(Gmul3[s2], s3))
              [] r = 2 -> Xor(Xor(s0, s1), Xor(Gmul2[s2], Gmul3[s3]))
              [] r = 3 -> Xor(Xor(Gmul3[s0], s1), Xor(s2, Gmul2[s3]))])

RECURSIVE aesRounds(_, _, _)
aesRounds(block, W, round) ==
    IF round > 14 \/ Len(block) # 16 THEN block
    ELSE LET sb == ShiftRows(SubBytes(block))
             mc == IF round < 14 THEN MixColumns(sb) ELSE sb
         IN  aesRounds(AddRoundKey(mc, W, round), W, round + 1)

aesEncryptBlock(block, W) == aesRounds(AddRoundKey(block, W, 0), W, 1)

-----------------------------------------------------------------------------
(* wz-constants.js is not part of the sources at hand: the IVs and the     *)
(* user key below are the values of the format (MapleLib).                 *)

WZ_GMSIV == <<77, 35, 199, 43>>
WZ_EMSIV == <<185, 125, 99, 233>>
WZ_BMSIV == <<0, 0, 0, 0>>

getIvByMapleVersion(ver) ==
    CASE ver = "GMS" -> WZ_GMSIV
      [] ver = "EMS" -> WZ_EMSIV
      [] OTHER       -> WZ_BMSIV

\* getTrimmedUserKey(MAPLESTORY_USERKEY_DEFAULT): the 32-byte AES key.
TrimmedUserKey ==
    <<19, 0, 0, 0, 8, 0, 0, 0, 6, 0, 0, 0, 180, 0, 0, 0,
      27, 0, 0, 0, 15, 0, 0, 0, 51, 0, 0, 0, 82, 0, 0, 0>>

-----------------------------------------------------------------------------
(* wz-crypto.js: WzMutableKey.  A generator is [iv, keys]; keys is <<>>    *)
(* while _keys is null and <<bytes>> once a batch was generated.           *)

BATCH_SIZE == BatchBlocks * 16

\* this._expandedKey, computed on first use from the fixed user key.
ExpandedKey == expandKey256(TrimmedUserKey)

generateWzKey(wzIv) == [iv |-> wzIv, keys |-> <<>>]

CeilDiv(a, b) == (a + b - 1) \div b

\* The generation loop of ensureKeySize: one block per 16 bytes from
\* startIndex up to size, each block the encryption of the previous 16 bytes
\* of the stream (of the tiled IV for the first block).
RECURSIVE keyGenLoop(_, _, _, _)
keyGenLoop(iv, newKeys, i, size) ==
    IF i >= size \/ Len(newKeys) # i THEN newKeys
    ELSE LET block == IF i = 0
                      THEN Tup([j \in 1..16 |-> iv[((j - 1) % 4) + 1]])
                      ELSE SubSeq(newKeys, i - 15, i)
         IN  keyGenLoop(iv, newKeys \o aesEncryptBlock(block, ExpandedKey), i + 16, size)

\* ensureKeySize without newKeys.set(this._keys): the bytes generated by
\* earlier requests are left zero in the grown array.
ensureKeySizeDropsOld(k, size) ==
    IF k.keys # <<>> /\ Len(k.keys[1]) >= size THEN k
    ELSE LET sz == CeilDiv(size, BATCH_SIZE) * BATCH_SIZE
         IN  IF k.iv[1] = 0 /\ k.iv[2] = 0 /\ k.iv[3] = 0 /\ k.iv[4] = 0
             THEN [k EXCEPT !.keys = <<Tup([j \in 1..sz |-> 0])>>]
             ELSE LET n   == IF k.keys # <<>> THEN Len(k.keys[1]) ELSE 0
                      old == Tup([j \in 1..n |-> 0])
                  IN  [k EXCEPT !.keys = <<keyGenLoop(k.iv, old, n, sz)>>]

ensureKeySize(k, size) ==
    IF k.keys # <<>> /\ Len(k.keys[1]) >= size THEN k
    ELSE LET sz == CeilDiv(size, BATCH_SIZE) * BATCH_SIZE
         IN  IF k.iv[1] = 0 /\ k.iv[2] = 0 /\ k.iv[3] = 0 /\ k.iv[4] = 0
             THEN [k EXCEPT !.keys = <<Tup([j \in 1..sz |-> 0])>>]
             ELSE LET old == IF k.keys # <<>> THEN k.keys[1] ELSE <<>>
                  IN  [k EXCEPT !.keys = <<keyGenLoop(k.iv, old, Len(old), sz)>>]

\* at(index): the generator after the call and the byte returned.
\* return this._keys[index], on the generator k2 that ensureKeySize left.
keyByteOf(k2, index) == [key |-> k2, byte |-> k2.keys[1][index + 1]]

keyAt(k, index) == keyByteOf(ensureKeySize(k, index + 1), index)

KeyLength(k) == IF k.keys = <<>> THEN 0 ELSE Len(k.keys[1])

-----------------------------------------------------------------------------
(* Unsigned 32-bit words: <<b0, b1, b2, b3>>, least significant byte first *)
(* (the order writeUInt32 stores them in).                                 *)

\* The word 0xB3B2B1B0.
Hex32(b3, b2, b1, b0) == <<b0, b1, b2, b3>>

\* n in 0 .. 2^31 - 1.
U32FromNat(n) ==
    <<n % 256, (n \div 256) % 256, (n \div 65536) % 256, (n \div 16777216) % 256>>

U32Not(a) == <<255 - a[1], 255 - a[2], 255 - a[3], 255 - a[4]>>

U32Xor(a, b) == <<Xor(a[1], b[1]), Xor(a[2], b[2]), Xor(a[3], b[3]), Xor(a[4], b[4])>>

U32Add(a, b) ==
    LET t1 == a[1] + b[1]
        t2 == a[2] + b[2] + (t1 \div 256)
        t3 == a[3] + b[3] + (t2 \div 256)
        t4 == a[4] + b[4] + (t3 \div 256)
    IN  <<t1 % 256, t2 % 256, t3 % 256, t4 % 256>>

U32One == <<1, 0, 0, 0>>

\* (a - b) >>> 0
U32Sub(a, b) == U32Add(a, U32Add(U32Not(b), U32One))

\* Math.imul(a, b) >>> 0
U32Mul(a, b) ==
    LET c1 == a[1] * b[1]
        c2 == a[1] * b[2] + a[2] * b[1] + (c1 \div 256)
        c3 == a[1] * b[3] + a[2] * b[2] + a[3] * b[1] + (c2 \div 256)
        c4 == a[1] * b[4] + a[2] * b[3] + a[3] * b[2] + a[4] * b[1] + (c3 \div 256)
    IN  <<c1 % 256, c2 % 256, c3 % 256, c4 % 256>>

Pow2(n) == CASE n = 0 -> 1 [] n = 1 -> 2 [] n = 2 -> 4 [] n = 3 -> 8 [] n = 4 -> 16
             [] n = 5 -> 32 [] n = 6 -> 64 [] n = 7 -> 128 [] n = 8 -> 256

\* rotateLeft(x, n): n &= 31; ((x << n) | (x >>> (32 - n))) >>> 0
rotateLeft(x, n) ==
    LET m == n % 32
        q == m \div 8
        r == m % 8
        y == [i \in 1..4 |-> x[((i - 1 - q + 4) % 4) + 1]]
    IN  Tup([i \in 1..4 |->
              ((y[i] * Pow2(r)) % 256) + (y[((i + 2) % 4) + 1] \div Pow2(8 - r))])

\* The value of a word read as a signed 32-bit integer (getInt32).
U32ToInt(a) ==
    IF a[4] < 128
    THEN a[1] + 256 * a[2] + 65536 * a[3] + 16777216 * a[4]
    ELSE -((255 - a[1]) + 256 * (255 - a[2]) + 65536 * (255 - a[3])
            + 16777216 * (255 - a[4])) - 1

\* The word holding the signed 32-bit integer v (setInt32).
IntToU32(v) == IF v >= 0 THEN U32FromNat(v) ELSE U32Not(U32FromNat(-(v + 1)))

\* wz-constants.js: WZ_OFFSET_CONSTANT = 0x581C3F6D.
WZ_OFFSET_CONSTANT == Hex32(88, 28, 63, 109)

-----------------------------------------------------------------------------
(* BinaryBuffer and WzBinaryWriter.  A writer is                           *)
(* [buf, key, cache, hash, fStart]: buf holds the bytes written so far     *)
(* (pos = Len(buf)), cache is the stringCache as a sequence of             *)
(* [k, off] entries in insertion order.                                    *)

NewWriter(wzKey, hash, fStart) ==
    [buf |-> <<>>, key |-> wzKey, cache |-> <<>>, hash |-> hash, fStart |-> fStart]

WriterPos(w) == Len(w.buf)

\* writeByte(v): v & 0xFF
writeByte(w, v) == [w EXCEPT !.buf = Append(@, v % 256)]

\* writeSByte(v): setInt8 stores v modulo 256
writeSByte(w, v) == [w EXCEPT !.buf = Append(@, v % 256)]

writeUInt16(w, v) == [w EXCEPT !.buf = @ \o <<v % 256, (v \div 256) % 256>>]

writeInt16(w, v) == writeUInt16(w, v % 65536)

\* writeUInt32 of a word
writeWord(w, a) == [w EXCEPT !.buf = @ \o a]

\* writeInt32(v) for a signed 32-bit v
writeInt32(w, v) == writeWord(w, IntToU32(v))

writeBytes(w, arr) == [w EXCEPT !.buf = @ \o arr]

\* writeCompressedInt with the test v < -128: -128 goes out in the short form.
writeCompressedIntShort128(w, v) ==
    IF v > 127 \/ v < -128
    THEN writeInt32(writeSByte(w, -128), v)
    ELSE writeSByte(w, v)

writeCompressedInt(w, v) ==
    IF v > 127 \/ v <= -128
    THEN writeInt32(writeSByte(w, -128), v)
    ELSE writeSByte(w, v)

\* The test of writeWzString for "any char > 127".
NeedsUnicode(str) == \E i \in 1..Len(str) : str[i] > 127

\* (wzKey.at(i * 2 + 1) << 8) | wzKey.at(i * 2)
keyUnitAt(k, i) == keyAt(k, i * 2 + 1).byte * 256 + keyAt(k, i * 2).byte

\* The 16-bit units a buffer holds as low byte, high byte.
UnitBytes(units) ==
    Tup([j \in 1..(2 * Len(units)) |->
            IF j % 2 = 1 THEN units[(j + 1) \div 2] % 256 ELSE units[j \div 2] \div 256])

\* The loop of _writeUnicodeString on the writer w1 that holds the length
\* prefix, with the generator k that ensureKeySize(len * 2) left.
writeUnicodeUnits(w1, k, str) ==
    [w1 EXCEPT !.key = k,
               !.buf = @ \o UnitBytes(Tup([i \in 1..Len(str) |->
                                Xor16(Xor16(str[i], keyUnitAt(k, i - 1)),
                                      (43690 + i - 1) % 65536)]))]

\* _writeUnicodeString with the test len > 127: a 127-unit string gets the
\* short length prefix.
_writeUnicodeStringShort127(w, str) ==
    LET len == Len(str)
        w1  == IF len > 127 THEN writeInt32(writeSByte(w, 127), len)
                            ELSE writeSByte(w, len)
    IN  writeUnicodeUnits(w1, ensureKeySize(w1.key, len * 2), str)

_writeUnicodeString(w, str) ==
    LET len == Len(str)
        w1  == IF len >= 127 THEN writeInt32(writeSByte(w, 127), len)
                             ELSE writeSByte(w, len)
    IN  writeUnicodeUnits(w1, ensureKeySize(w1.key, len * 2), str)

\* The loop of _writeAsciiString on the writer w1 that holds the length
\* prefix, with the generator k that ensureKeySize(len) left.
writeAsciiChars(w1, k, str) ==
    [w1 EXCEPT !.key = k,
               !.buf = @ \o Tup([j \in 1..Len(str) |->
                            Xor(Xor(str[j] % 256, keyAt(k, j - 1).byte),
                                (170 + j - 1) % 256)])]

_writeAsciiString(w, str) ==
    LET len == Len(str)
        w1  == IF len > 127 THEN writeInt32(writeSByte(w, -128), len)
                            ELSE writeSByte(w, -len)
    IN  writeAsciiChars(w1, ensureKeySize(w1.key, len), str)

writeWzString(w, str) ==
    IF Len(str) = 0 THEN writeByte(w, 0)
    ELSE IF NeedsUnicode(str) THEN _writeUnicodeString(w, str)
    ELSE _writeAsciiString(w, str)

\* The obfuscation of writeOffset: the word stored at stream position pos
\* for the target value.
EncryptOffset(pos, fStart, hash, value) ==
    LET e1 == U32Not(U32Sub(pos, fStart))
        e2 == U32Mul(e1, hash)
        e3 == U32Sub(e2, WZ_OFFSET_CONSTANT)
        e4 == rotateLeft(e3, e3[1] % 32)
    IN  U32Xor(e4, U32Sub(value, U32Add(fStart, fStart)))

\* value is a word.
writeOffset(w, value) ==
    writeWord(w, EncryptOffset(U32FromNat(WriterPos(w)), U32FromNat(w.fStart),
                               w.hash, value))

-----------------------------------------------------------------------------
(* WzBinaryReader.  A reader is [bytes, pos, key, startOffset, hash,       *)
(* fStart, err]; err is set when a read runs past the end of the buffer    *)
(* (the DataView throws) and every later read leaves the reader alone.     *)
(* A read returns [r |-> the reader after it, v |-> the value].            *)

NewReader(buffer, wzKey, startOffset) ==
    [bytes |-> buffer, pos |-> 0, key |-> wzKey, startOffset |-> startOffset,
     hash |-> U32FromNat(0), fStart |-> 0, err |-> FALSE]

CanRead(r, n) == ~r.err /\ r.pos >= 0 /\ n >= 0 /\ n <= Len(r.bytes) /\ r.pos <= Len(r.bytes) - n

Failed(r) == [r EXCEPT !.err = TRUE]

readByte(r) ==
    IF CanRead(r, 1)
    THEN [r |-> [r EXCEPT !.pos = @ + 1], v |-> r.bytes[r.pos + 1]]
    ELSE [r |-> Failed(r), v |-> 0]

readSByte(r) ==
    LET b == readByte(r)
    IN  [r |-> b.r, v |-> IF b.v >= 128 THEN b.v - 256 ELSE b.v]

readUInt16(r) ==
    IF CanRead(r, 2)
    THEN [r |-> [r EXCEPT !.pos = @ + 2],
          v |-> r.bytes[r.pos + 1] + 256 * r.bytes[r.pos + 2]]
    ELSE [r |-> Failed(r), v |-> 0]

readInt16(r) ==
    LET u == readUInt16(r)
    IN  [r |-> u.r, v |-> IF u.v >= 32768 THEN u.v - 65536 ELSE u.v]

\* readUInt32 as a word
readWord(r) ==
    IF CanRead(r, 4)
    THEN [r |-> [r EXCEPT !.pos = @ + 4], v |-> SubSeq(r.bytes, r.pos + 1, r.pos + 4)]
    ELSE [r |-> Failed(r), v |-> U32FromNat(0)]

readInt32(r) ==
    LET u == readWord(r)
    IN  [r |-> u.r, v |-> U32ToInt(u.v)]

readBytes(r, count) ==
    IF CanRead(r, count)
    THEN [r |-> [r EXCEPT !.pos = @ + count], v |-> SubSeq(r.bytes, r.pos + 1, r.pos + count)]
    ELSE [r |-> Failed(r), v |-> <<>>]

readCompressedInt(r) ==
    LET sb == readSByte(r)
    IN  IF sb.v = -128 THEN readInt32(sb.r) ELSE sb

\* _decodeUnicode(length).  A length the buffer cannot hold ends in the
\* exception of the first read past the end.
\* The loop of _decodeUnicode with the generator k that
\* ensureKeySize(length * 2) left.
readUnicodeUnits(r, k, length) ==
    [r |-> [r EXCEPT !.pos = @ + 2 * length, !.key = k],
     v |-> Tup([i \in 1..length |->
              Xor16(Xor16(r.bytes[r.pos + 2 * i - 1] + 256 * r.bytes[r.pos + 2 * i],
                          (43690 + i - 1) % 65536),
                    keyUnitAt(k, i - 1))])]

_decodeUnicode(r, length) ==
    IF ~CanRead(r, 0) \/ length > Len(r.bytes) \/ ~CanRead(r, 2 * length)
    THEN [r |-> Failed(r), v |-> <<>>]
    ELSE readUnicodeUnits(r, ensureKeySize(r.key, length * 2), length)

\* The loop of _decodeAscii with the generator k that ensureKeySize(length)
\* left.
readAsciiChars(r, k, length) ==
    [r |-> [r EXCEPT !.pos = @ + length, !.key = k],
     v |-> Tup([i \in 1..length |->
              Xor(Xor(r.bytes[r.pos + i], (170 + i - 1) % 256), keyAt(k, i - 1).byte)])]

_decodeAscii(r, length) ==
    IF ~CanRead(r, length)
    THEN [r |-> Failed(r), v |-> <<>>]
    ELSE readAsciiChars(r, ensureKeySize(r.key, length), length)

\* readWzString from the length on: len is [r, v], the reader after the
\* length was read and the length.
readWzStringOfLength(len, unicode) ==
    IF len.r.err \/ len.v <= 0 THEN [r |-> len.r, v |-> <<>>]
    ELSE IF unicode THEN _decodeUnicode(len.r, len.v)
    ELSE _decodeAscii(len.r, len.v)

\* readWzString from the length byte sl = [r, v] on.
readWzStringAfter(sl) ==
    IF sl.r.err \/ sl.v = 0 THEN [r |-> sl.r, v |-> <<>>]
    ELSE IF sl.v > 0
    THEN readWzStringOfLength(IF sl.v = 127 THEN readInt32(sl.r) ELSE sl, TRUE)
    ELSE readWzStringOfLength(IF sl.v = -128 THEN readInt32(sl.r)
                              ELSE [r |-> sl.r, v |-> -sl.v], FALSE)

readWzString(r) == readWzStringAfter(readSByte(r))

\* The branch readWzString takes on the length byte at the reader's position.
ReadsUnicode(r) == readSByte(r).v > 0

\* readWzOffset adding the data-section start once instead of twice.
DecryptOffsetOneStart(pos, fStart, hash, enc) ==
    LET o1 == U32Not(U32Sub(pos, fStart))
        o2 == U32Mul(o1, hash)
        o3 == U32Sub(o2, WZ_OFFSET_CONSTANT)
        o4 == rotateLeft(o3, o3[1] % 32)
        o5 == U32Xor(o4, enc)
    IN  U32Add(o5, fStart)

\* The arithmetic of readWzOffset: the offset recovered at stream position
\* pos from the stored word enc.
DecryptOffset(pos, fStart, hash, enc) ==
    LET o1 == U32Not(U32Sub(pos, fStart))
        o2 == U32Mul(o1, hash)
        o3 == U32Sub(o2, WZ_OFFSET_CONSTANT)
        o4 == rotateLeft(o3, o3[1] % 32)
        o5 == U32Xor(o4, enc)
    IN  U32Add(o5, U32Add(fStart, fStart))

\* readWzOffset: the value is the offset as a word; callers add startOffset.
readWzOffset(r) ==
    LET e == readWord(r)
    IN  [r |-> e.r,
         v |-> DecryptOffset(U32FromNat(r.pos), U32FromNat(r.fStart), r.hash, e.v)]

-----------------------------------------------------------------------------
(* WzNode.  Strings are tuples of UTF-16 code units.  A node is a record   *)
(* of the fields the reader and the writer use; num holds a numeric value  *)
(* and str a string value (value = null is num = 0, str = <<>>, which is   *)
(* what value | 0 and String(value || '') make of it).  bsrc is            *)
(* _binarySource and png is _pngInfo, <<>> when null; binaryOffset and     *)
(* binarySize are _binaryOffset and _binarySize.  The _wz* fields and      *)
(* img (the node's imageDataMap entry) are written and read by one repack  *)
(* and are kept at their defaults between repacks.                         *)

S_Property == <<80, 114, 111, 112, 101, 114, 116, 121>>
S_Canvas   == <<67, 97, 110, 118, 97, 115>>
S_Vector2D == <<83, 104, 97, 112, 101, 50, 68, 35, 86, 101, 99, 116, 111, 114, 50, 68>>
S_Convex2D == <<83, 104, 97, 112, 101, 50, 68, 35, 67, 111, 110, 118, 101, 120, 50, 68>>
S_Sound    == <<83, 111, 117, 110, 100, 95, 68, 88, 56>>
S_UOL      == <<85, 79, 76>>
S_DotImg   == <<46, 105, 109, 103>>
S_PKG1     == <<80, 75, 71, 49>>
S_Copyright == <<80, 97, 99, 107, 97, 103, 101, 32, 102, 105, 108, 101, 32, 118, 49, 46, 48, 32, 67, 111, 112, 121, 114, 105, 103, 104, 116, 32, 50, 48, 48, 50, 32, 87, 105, 122, 101, 116, 44, 32, 90, 77, 83>>

WzNode(name, type) ==
    [name |-> name, type |-> type, num |-> 0, str |-> <<>>, x |-> 0, y |-> 0,
     width |-> 0, height |-> 0, children |-> <<>>, modified |-> FALSE,
     parsed |-> FALSE, bsrc |-> <<>>, png |-> <<>>, binaryOffset |-> 0, binarySize |-> 0,
     wzSize |-> 0, wzOffsetSize |-> 0, wzOffset |-> 0, wzBlockSize |-> 0,
     wzChecksum |-> 0, img |-> <<>>]

\* addChild(child): children.push(child)
addChild(node, child) == [node EXCEPT !.children = Append(@, child)]

endsWith(str, suffix) ==
    /\ Len(str) >= Len(suffix)
    /\ SubSeq(str, Len(str) - Len(suffix) + 1, Len(str)) = suffix

-----------------------------------------------------------------------------
(* The stringCache of a writer: [k, off] entries in insertion order.       *)

CacheHas(cache, k) == \E i \in 1..Len(cache) : cache[i].k = k

CacheGet(cache, k) == cache[CHOOSE i \in 1..Len(cache) : cache[i].k = k].off

CacheSet(cache, k, off) ==
    IF CacheHas(cache, k)
    THEN [i \in 1..Len(cache) |-> IF cache[i].k = k THEN [k |-> k, off |-> off] ELSE cache[i]]
    ELSE Append(cache, [k |-> k, off |-> off])

\* `${type}_${str}` for the one-digit entry types.
storeName(type, str) == <<48 + type, 95>> \o str

\* writeInt64(v) for a v in the int32 range: low word v & 0xFFFFFFFF, high
\* word floor(v / 2^32).
writeInt64(w, v) ==
    writeInt32(writeWord(w, IntToU32(v)), IF v < 0 THEN -1 ELSE 0)

writeCompressedLong(w, v) ==
    IF v > 127 \/ v <= -128
    THEN writeInt64(writeSByte(w, -128), v)
    ELSE writeSByte(w, v)

\* if (!this.stringCache.has(k)) this.stringCache.set(k, sOffset), on the
\* writer w2 that holds the string.
cacheString(w2, k, sOffset) ==
    IF CacheHas(w2.cache, k) THEN w2 ELSE [w2 EXCEPT !.cache = CacheSet(@, k, sOffset)]

\* writeStringValue with sOffset taken before the type byte is written.
writeStringValueOffsetOfTypeByte(w, str, withoutOffset, withOffset) ==
    IF Len(str) > 4 /\ CacheHas(w.cache, str)
    THEN writeInt32(writeByte(w, withOffset), CacheGet(w.cache, str))
    ELSE cacheString(writeWzString(writeByte(w, withoutOffset), str), str, WriterPos(w))

writeStringValue(w, str, withoutOffset, withOffset) ==
    IF Len(str) > 4 /\ CacheHas(w.cache, str)
    THEN writeInt32(writeByte(w, withOffset), CacheGet(w.cache, str))
    ELSE cacheString(writeWzString(writeByte(w, withoutOffset), str), str,
                     WriterPos(writeByte(w, withoutOffset)))

writeWzObjectValue(w, str, type) ==
    IF Len(str) > 4 /\ CacheHas(w.cache, storeName(type, str))
    THEN writeInt32(writeByte(w, 2), CacheGet(w.cache, storeName(type, str)))
    ELSE cacheString(writeWzString(writeByte(w, type), str), storeName(type, str),
                     WriterPos(w) - w.fStart)

\* writeByte(str.charCodeAt(i)) for every i, then writeByte(0).
writeNullTerminatedString(w, str) ==
    [w EXCEPT !.buf = @ \o Tup([i \in 1..Len(str) |-> str[i] % 256]) \o <<0>>]

clearStringCache(w) == [w EXCEPT !.cache = <<>>]

-----------------------------------------------------------------------------
(* Sizes of the layout pass.                                               *)

getCompressedIntLength(v) == IF v > 127 \/ v < -127 THEN 5 ELSE 1

getEncodedStringLength(str) ==
    IF Len(str) = 0 THEN 1
    ELSE LET unicode == \E i \in 1..Len(str) : str[i] > 255
             prefixLen == IF Len(str) > (IF unicode THEN 126 ELSE 127) THEN 5 ELSE 1
             encodedLen == IF unicode THEN Len(str) * 2 ELSE Len(str)
         IN  prefixLen + encodedLen

\* getWzObjectValueLength(s, type) on the _calcStringCache cc (a set of
\* store names): the length and the cache after the call.
getWzObjectValueLength(cc, str, type) ==
    IF Len(str) > 4 /\ storeName(type, str) \in cc
    THEN [len |-> 5, cc |-> cc]
    ELSE [len |-> 1 + getEncodedStringLength(str), cc |-> cc \cup {storeName(type, str)}]

-----------------------------------------------------------------------------
(* Image serialization.  The model builds no double and no sound node and  *)
(* no float other than 0, so their payloads are not modelled.              *)

WZ_IMG_HEADER_WITHOUT_OFFSET == 115

WZ_IMG_HEADER_WITH_OFFSET == 27

isExtendedType(type) == type \in {"sub", "canvas", "vector", "convex", "sound", "uol"}

writePropertyValue(w, node) ==
    CASE node.type = "null"   -> writeByte(w, 0)
      [] node.type = "short"  -> writeInt16(writeByte(w, 2), node.num)
      [] node.type = "int"    -> writeCompressedInt(writeByte(w, 3), node.num)
      [] node.type = "long"   -> writeCompressedLong(writeByte(w, 20), node.num)
      [] node.type = "float"  -> writeByte(writeByte(w, 4), 0)
      [] node.type = "string" -> writeStringValue(writeByte(w, 8), node.str, 0, 1)
      [] OTHER                -> writeByte(w, 0)

\* The 1x1 fallback payload; _pngInfo._originalCompressed (orig) is taken
\* when a canvas carries it.
getCanvasCompressedBytes(node) ==
    IF node.png # <<>> /\ node.png[1].orig # <<>>
    THEN node.png[1].orig[1]
    ELSE <<120, 156, 99, 96, 96, 0, 0, 0, 4, 0, 1>>

\* buf.setInt32(sizePos, size)
setInt32(w, pos, v) ==
    [w EXCEPT !.buf = SubSeq(@, 1, pos) \o IntToU32(v) \o SubSeq(@, pos + 5, Len(@))]

RECURSIVE writePropertyList(_, _)
RECURSIVE writeProperties(_, _, _)
RECURSIVE writeExtendedValue(_, _)
RECURSIVE writeConvexChildren(_, _, _)

\* const size = endPos - sizePos - 4; buf.setInt32(sizePos, size), on the
\* writer w2 that holds the value.
setBlockSize(w2, sizePos) == setInt32(w2, sizePos, WriterPos(w2) - sizePos - 4)

writeExtendedProperty(w, node) ==
    setBlockSize(writeExtendedValue(writeInt32(writeByte(w, 9), 0), node),
                 WriterPos(writeByte(w, 9)))

\* The body of the loop of writePropertyList after the child's name.
writeProperty(w1, child) ==
    IF isExtendedType(child.type) THEN writeExtendedProperty(w1, child)
    ELSE writePropertyValue(w1, child)

writeProperties(w, children, i) ==
    IF i > Len(children) \/ Len(w.buf) < 0 THEN w
    ELSE writeProperties(
             writeProperty(writeStringValue(w, children[i].name, 0, 1), children[i]),
             children, i + 1)

writePropertyList(w, children) ==
    writeProperties(writeCompressedInt(writeUInt16(w, 0), Len(children)), children, 1)

writeConvexChildren(w, children, i) ==
    IF i > Len(children) \/ Len(w.buf) < 0 THEN w
    ELSE writeConvexChildren(writeExtendedValue(w, children[i]), children, i + 1)

\* The type name each case of writeExtendedValue writes first.
extendedTypeName(type) ==
    CASE type = "sub"    -> S_Property
      [] type = "canvas" -> S_Canvas
      [] type = "vector" -> S_Vector2D
      [] type = "convex" -> S_Convex2D
      [] type = "uol"    -> S_UOL
      [] OTHER           -> S_Property

\* The canvas case from the PNG info on, on the writer w2 that holds the
\* property list.
writePngInfo(w2, node, format, pngData) ==
    writeBytes(
        writeByte(
            writeInt32(
                writeInt32(
                    writeCompressedInt(
                        writeCompressedInt(
                            writeCompressedInt(writeCompressedInt(w2, node.width),
                                               node.height),
                            format % 256),
                        format \div 256),
                    0),
                Len(pngData) + 1),
            0),
        pngData)

\* The case of writeExtendedValue for the node, on the writer w1 that holds
\* the type name.
writeExtendedBody(w1, node) ==
    CASE node.type = "sub" -> writePropertyList(w1, node.children)
      [] node.type = "canvas" ->
           writePngInfo(IF Len(node.children) > 0
                        THEN writePropertyList(writeByte(writeByte(w1, 0), 1), node.children)
                        ELSE writeByte(writeByte(w1, 0), 0),
                        node,
                        IF node.png # <<>> THEN node.png[1].format ELSE 1,
                        getCanvasCompressedBytes(node))
      [] node.type = "vector" ->
           writeCompressedInt(writeCompressedInt(w1, node.x), node.y)
      [] node.type = "convex" ->
           writeConvexChildren(writeCompressedInt(w1, Len(node.children)),
                               node.children, 1)
      [] node.type = "uol" -> writeStringValue(writeByte(w1, 0), node.str, 0, 1)
      [] OTHER -> writePropertyList(w1, <<>>)

writeExtendedValue(w, node) ==
    writeExtendedBody(
        writeStringValue(w, extendedTypeName(node.type), WZ_IMG_HEADER_WITHOUT_OFFSET,
                         WZ_IMG_HEADER_WITH_OFFSET),
        node)

\* (a + b) & 0x7FFFFFFF for a and b of 0 .. 2^31 - 1.
addChecksum(a, b) ==
    IF a > 2147483647 - b THEN a - (2147483647 - b) - 1 ELSE a + b

RECURSIVE SumBytes(_, _, _)
\* sum = (sum + data[i]) & 0x7FFFFFFF for the bytes lo .. hi of data, from
\* sum = 0.  The additions are grouped in halves: (a + b) & 0x7FFFFFFF is
\* associative, and the recursion stays shallow.
SumBytes(data, lo, hi) ==
    IF lo > hi THEN 0
    ELSE IF lo = hi THEN data[lo]
    ELSE addChecksum(SumBytes(data, lo, (lo + hi) \div 2),
                     SumBytes(data, (lo + hi) \div 2 + 1, hi))

computeChecksum(data) == SumBytes(data, 1, Len(data))

\* The result for one image: its bytes, its checksum, copied = TRUE when
\* the bytes are the slice of the original buffer, err = TRUE when the
\* Uint8Array view over the original buffer throws a RangeError.
\* originalBuffer is <<>> for null.
\* return { data, checksum: computeChecksum(data) }
imageResult(data, copied) ==
    [data |-> data, checksum |-> computeChecksum(data), copied |-> copied, err |-> FALSE]

serializeImageBinary(imageNode, wzKey, originalBuffer) ==
    IF ~imageNode.modified /\ imageNode.bsrc # <<>> /\ originalBuffer # <<>>
    THEN LET bs == imageNode.bsrc[1]
             ob == originalBuffer[1]
         IN  IF bs.offset < 0 \/ bs.length < 0 \/ bs.offset > Len(ob)
                  \/ bs.length > Len(ob) - bs.offset
             THEN [data |-> <<>>, checksum |-> 0, copied |-> TRUE, err |-> TRUE]
             ELSE imageResult(SubSeq(ob, bs.offset + 1, bs.offset + bs.length), TRUE)
    ELSE imageResult(
             writePropertyList(
                 writeUInt16(
                     writeWzString(
                         writeByte(NewWriter(wzKey, U32FromNat(0), 0),
                                   WZ_IMG_HEADER_WITHOUT_OFFSET),
                         S_Property),
                     0),
                 imageNode.children).buf,
             FALSE)

-----------------------------------------------------------------------------
(* repackWzFile.  The passes annotate the nodes as the code does           *)
(* (_wzSize, _wzOffsetSize, _wzOffset, _wzBlockSize, _wzChecksum); the     *)
(* imageDataMap entry of an image node is its img field.  The emit pass    *)
(* also keeps a log of where each directory block and each image's data    *)
(* went: entries [path, kind, at, len], path being the child indexes from  *)
(* the root.                                                               *)

RECURSIVE Digits(_)
Digits(v) == IF v < 10 THEN <<48 + v>> ELSE Append(Digits(v \div 10), 48 + (v % 10))

RECURSIVE hashLoop(_, _, _)
hashLoop(vstr, i, h) ==
    IF i > Len(vstr) THEN h
    ELSE hashLoop(vstr, i + 1, U32Add(U32Mul(h, U32FromNat(32)), U32FromNat(vstr[i] + 1)))

\* The version hash of a patch version (a word).
versionHashOf(gameVersion) == hashLoop(Digits(gameVersion), 1, U32FromNat(0))

\* The header without the complement: (b3 ^ b2 ^ b1 ^ b0) & 0xFF.
versionHeaderOfNoComplement(hash) == Xor(Xor(hash[4], hash[3]), Xor(hash[2], hash[1]))

\* (~(b3 ^ b2 ^ b1 ^ b0)) & 0xFF
versionHeaderOf(hash) == 255 - Xor(Xor(hash[4], hash[3]), Xor(hash[2], hash[1]))

RECURSIVE serializeImages(_, _, _)
serializeImages(node, wzKey, originalBuffer) ==
    [node EXCEPT !.children =
        [i \in 1..Len(node.children) |->
            LET child == node.children[i]
            IN  IF child.type = "image"
                THEN [child EXCEPT !.img = <<serializeImageBinary(child, wzKey, originalBuffer)>>]
                ELSE IF child.type \in {"dir", "file"}
                THEN serializeImages(child, wzKey, originalBuffer)
                ELSE child]]

RECURSIVE AnyImageFailed(_)
AnyImageFailed(node) ==
    \E i \in 1..Len(node.children) :
        LET child == node.children[i]
        IN  IF child.type = "image" THEN child.img # <<>> /\ child.img[1].err
            ELSE child.type \in {"dir", "file"} /\ AnyImageFailed(child)

RECURSIVE calcDirSize(_, _)
RECURSIVE calcDirEntries(_, _, _)

\* The loop of calcDirSize over the children from index i on; st is
\* [children, cc, size, offsetSize].
calcDirEntries(st, i, n) ==
    IF i > n \/ st.size < 0 THEN st
    ELSE LET child == st.children[i]
         IN  IF child.type = "dir"
             THEN LET nl  == getWzObjectValueLength(st.cc, child.name, 3)
                      sub == calcDirSize(child, nl.cc)
                      el  == getCompressedIntLength(sub.node.wzSize)
                               + getCompressedIntLength(sub.node.wzChecksum) + 4
                  IN  calcDirEntries(
                          [children   |-> [st.children EXCEPT ![i] = sub.node],
                           cc         |-> sub.cc,
                           size       |-> st.size + nl.len + sub.size + el,
                           offsetSize |-> st.offsetSize + nl.len + el], i + 1, n)
             ELSE IF child.type = "image"
             THEN LET nl == getWzObjectValueLength(st.cc, child.name, 4)
                      imgSize == IF child.img # <<>> THEN Len(child.img[1].data) ELSE 0
                      imgChecksum == IF child.img # <<>> THEN child.img[1].checksum ELSE 0
                      el == getCompressedIntLength(imgSize)
                              + getCompressedIntLength(imgChecksum) + 4
                  IN  calcDirEntries(
                          [children   |-> [st.children EXCEPT ![i] =
                                              [child EXCEPT !.wzBlockSize = imgSize,
                                                            !.wzChecksum = imgChecksum]],
                           cc         |-> nl.cc,
                           size       |-> st.size + nl.len + imgSize + el,
                           offsetSize |-> st.offsetSize + nl.len + el], i + 1, n)
             ELSE calcDirEntries(st, i + 1, n)

\* [node, cc, size, offsetSize]: the annotated node, the _calcStringCache
\* after the call and the returned sizes.
calcDirSize(node, cc) ==
    IF Len(node.children) = 0
    THEN [node |-> [node EXCEPT !.wzOffsetSize = 1, !.wzSize = 0],
          cc |-> cc, size |-> 0, offsetSize |-> 1]
    ELSE LET ecl == getCompressedIntLength(Len(node.children))
             st  == calcDirEntries([children |-> node.children, cc |-> cc,
                                    size |-> ecl, offsetSize |-> ecl],
                                   1, Len(node.children))
         IN  [node |-> [node EXCEPT !.children = st.children, !.wzSize = st.size,
                                    !.wzOffsetSize = st.offsetSize, !.wzChecksum = 0],
              cc |-> st.cc, size |-> st.size, offsetSize |-> st.offsetSize]

RECURSIVE setDirOffsets(_, _)
RECURSIVE setDirOffsetsOfChildren(_, _, _)

\* st is [children, cur].
setDirOffsetsOfChildren(st, i, n) ==
    IF i > n \/ st.cur < 0 THEN st
    ELSE IF st.children[i].type = "dir"
    THEN LET sub == setDirOffsets(st.children[i], st.cur)
         IN  setDirOffsetsOfChildren(
                 [children |-> [st.children EXCEPT ![i] = sub.node], cur |-> sub.cur],
                 i + 1, n)
    ELSE setDirOffsetsOfChildren(st, i + 1, n)

\* [node, cur]: the annotated node and the returned offset.
setDirOffsets(node, curOffset) ==
    LET st == setDirOffsetsOfChildren(
                  [children |-> node.children, cur |-> curOffset + node.wzOffsetSize],
                  1, Len(node.children))
    IN  [node |-> [node EXCEPT !.wzOffset = curOffset, !.children = st.children],
         cur |-> st.cur]

RECURSIVE setImgOffsets(_, _)
RECURSIVE setImgOffsetsOfImages(_, _, _)
RECURSIVE setImgOffsetsOfDirs(_, _, _)

setImgOffsetsOfImages(st, i, n) ==
    IF i > n \/ st.cur < 0 THEN st
    ELSE IF st.children[i].type = "image"
    THEN LET child == st.children[i]
         IN  setImgOffsetsOfImages(
                 [children |-> [st.children EXCEPT ![i] = [child EXCEPT !.wzOffset = st.cur]],
                  cur |-> st.cur + (IF child.img # <<>> THEN Len(child.img[1].data) ELSE 0)],
                 i + 1, n)
    ELSE setImgOffsetsOfImages(st, i + 1, n)

setImgOffsetsOfDirs(st, i, n) ==
    IF i > n \/ st.cur < 0 THEN st
    ELSE IF st.children[i].type = "dir"
    THEN LET sub == setImgOffsets(st.children[i], st.cur)
         IN  setImgOffsetsOfDirs(
                 [children |-> [st.children EXCEPT ![i] = sub.node], cur |-> sub.cur],
                 i + 1, n)
    ELSE setImgOffsetsOfDirs(st, i + 1, n)

setImgOffsets(node, curOffset) ==
    LET n   == Len(node.children)
        st1 == setImgOffsetsOfImages([children |-> node.children, cur |-> curOffset], 1, n)
        st2 == setImgOffsetsOfDirs(st1, 1, n)
    IN  [node |-> [node EXCEPT !.children = st2.children], cur |-> st2.cur]

RECURSIVE TotalImgSize(_)
RECURSIVE TotalImgSizeFrom(_, _)
TotalImgSizeFrom(children, i) ==
    IF i > Len(children) THEN 0
    ELSE (IF children[i].type = "image"
          THEN (IF children[i].img # <<>> THEN Len(children[i].img[1].data) ELSE 0)
          ELSE IF children[i].type \in {"dir", "file"} THEN TotalImgSize(children[i])
          ELSE 0)
         + TotalImgSizeFrom(children, i + 1)

\* The sum of data.length over imageDataMap.values().
TotalImgSize(node) == TotalImgSizeFrom(node.children, 1)

RECURSIVE writeDirectory(_, _, _)
RECURSIVE writeDirImageEntries(_, _, _)
RECURSIVE writeDirDirEntries(_, _, _)
RECURSIVE writeDirSubdirectories(_, _, _, _)

\* A directory entry after its name: writeCompressedInt(size),
\* writeCompressedInt(checksum), writeOffset(offset).
writeDirEntry(w1, size, checksum, offset) ==
    writeOffset(writeCompressedInt(writeCompressedInt(w1, size), checksum),
                U32FromNat(offset))

writeDirImageEntries(w, children, i) ==
    IF i > Len(children) \/ Len(w.buf) < 0 THEN w
    ELSE IF children[i].type = "image"
    THEN writeDirImageEntries(
             writeDirEntry(writeWzObjectValue(w, children[i].name, 4),
                           children[i].wzBlockSize, children[i].wzChecksum,
                           children[i].wzOffset),
             children, i + 1)
    ELSE writeDirImageEntries(w, children, i + 1)

writeDirDirEntries(w, children, i) ==
    IF i > Len(children) \/ Len(w.buf) < 0 THEN w
    ELSE IF children[i].type = "dir"
    THEN writeDirDirEntries(
             writeDirEntry(writeWzObjectValue(w, children[i].name, 3),
                           children[i].wzSize, children[i].wzChecksum,
                           children[i].wzOffset),
             children, i + 1)
    ELSE writeDirDirEntries(w, children, i + 1)

\* st is [w, log].
writeDirSubdirectories(st, children, path, i) ==
    IF i > Len(children) \/ Len(st.log) < 0 THEN st
    ELSE IF children[i].type = "dir"
    THEN IF children[i].wzSize > 0
         THEN writeDirSubdirectories(writeDirectory(st, children[i], Append(path, i)),
                                     children, path, i + 1)
         ELSE writeDirSubdirectories(
                  [w |-> writeByte(st.w, 0),
                   log |-> Append(st.log, [path |-> Append(path, i), kind |-> "dir",
                                           at |-> WriterPos(st.w), len |-> 1])],
                  children, path, i + 1)
    ELSE writeDirSubdirectories(st, children, path, i + 1)

\* The recursion of writeDirectory into the subdirectories, on the writer
\* w3 that holds the entry block of the node; the block goes to the log.
writeDirBelow(st, w3, node, path) ==
    writeDirSubdirectories(
        [w |-> w3,
         log |-> Append(st.log, [path |-> path, kind |-> "dir", at |-> WriterPos(st.w),
                                 len |-> WriterPos(w3) - WriterPos(st.w)])],
        node.children, path, 1)

writeDirectory(st, node, path) ==
    IF Len(node.children) = 0
    THEN [w |-> writeByte(st.w, 0),
          log |-> Append(st.log, [path |-> path, kind |-> "dir",
                                  at |-> WriterPos(st.w), len |-> 1])]
    ELSE writeDirBelow(
             st,
             writeDirDirEntries(
                 writeDirImageEntries(writeCompressedInt(st.w, Len(node.children)),
                                      node.children, 1),
                 node.children, 1),
             node, path)

RECURSIVE writeImageData(_, _, _)
RECURSIVE writeImageDataOfImages(_, _, _, _)
RECURSIVE writeImageDataOfDirs(_, _, _, _)

writeImageDataOfImages(st, children, path, i) ==
    IF i > Len(children) \/ Len(st.log) < 0 THEN st
    ELSE IF children[i].type = "image"
    THEN LET data == IF children[i].img # <<>> THEN children[i].img[1].data ELSE <<>>
         IN  writeImageDataOfImages(
                 [w |-> writeBytes(st.w, data),
                  log |-> Append(st.log, [path |-> Append(path, i), kind |-> "image",
                                          at |-> WriterPos(st.w), len |-> Len(data)])],
                 children, path, i + 1)
    ELSE writeImageDataOfImages(st, children, path, i + 1)

writeImageDataOfDirs(st, children, path, i) ==
    IF i > Len(children) \/ Len(st.log) < 0 THEN st
    ELSE IF children[i].type = "dir"
    THEN writeImageDataOfDirs(writeImageData(st, children[i], Append(path, i)),
                              children, path, i + 1)
    ELSE writeImageDataOfDirs(st, children, path, i + 1)

writeImageData(st, node, path) ==
    writeImageDataOfDirs(writeImageDataOfImages(st, node.children, path, 1),
                         node.children, path, 1)

\* const fStart = 4 + 8 + 4 + copyright.length + 1
RepackFStart == 4 + 8 + 4 + Len(S_Copyright) + 1

\* while (buf.pos < fStart) buf.writeByte(0)
padTo(w, fStart) ==
    writeBytes(w, Rep(0, IF WriterPos(w) < fStart THEN fStart - WriterPos(w) ELSE 0))

\* Step 4 up to the version header.
writeFileHeader(wzKey, versionHash, totalSize) ==
    writeUInt16(
        padTo(writeNullTerminatedString(
                  writeWord(writeInt64(writeBytes(NewWriter(wzKey, versionHash, RepackFStart),
                                                  S_PKG1),
                                       totalSize - RepackFStart),
                            U32FromNat(RepackFStart)),
                  S_Copyright),
              RepackFStart),
        versionHeaderOf(versionHash))

\* writer.clearStringCache() after writeDirectory; d is [w, log].
clearCacheAfterDirectory(d) == [w |-> clearStringCache(d.w), log |-> d.log]

\* The result of a repack that wrote e = [w, log] for the tree t3.
repackResult(e, t3, mapleVersion, gameVersion) ==
    [err |-> FALSE, bytes |-> e.w.buf, tree |-> t3, log |-> e.log,
     hash |-> versionHashOf(gameVersion), fStart |-> RepackFStart,
     mapleVersion |-> mapleVersion, gameVersion |-> gameVersion]

\* Step 4 for the tree t3 that holds the sizes and the offsets.
repackWrite(t3, dirEndOffset, mapleVersion, gameVersion, wzKey) ==
    repackResult(
        writeImageData(
            clearCacheAfterDirectory(
                writeDirectory(
                    [w |-> writeFileHeader(wzKey, versionHashOf(gameVersion),
                                           dirEndOffset + TotalImgSize(t3)),
                     log |-> <<>>],
                    t3, <<>>)),
            t3, <<>>),
        t3, mapleVersion, gameVersion)

\* Step 3 from the offsets on; dirInfo is the result of calcDirSize and
\* dirEndOffset is dirStartOffset + dirInfo.offsetSize.
repackOffsets(dirInfo, dirEndOffset, mapleVersion, gameVersion, wzKey) ==
    repackWrite(
        setImgOffsets(setDirOffsets(dirInfo.node, RepackFStart + 2).node, dirEndOffset).node,
        dirEndOffset, mapleVersion, gameVersion, wzKey)

\* Step 3 on the tree t1 that holds the image results.
repackLayout(dirInfo, mapleVersion, gameVersion, wzKey) ==
    repackOffsets(dirInfo, RepackFStart + 2 + dirInfo.offsetSize,
                  mapleVersion, gameVersion, wzKey)

\* Steps 3 and 4 on the tree t1 that holds the image results; a RangeError
\* of the fast path ends the repack in step 2.
repackSerialized(t1, mapleVersion, gameVersion, wzKey) ==
    IF AnyImageFailed(t1)
    THEN [err |-> TRUE, bytes |-> <<>>, tree |-> t1, log |-> <<>>,
          hash |-> versionHashOf(gameVersion), fStart |-> RepackFStart,
          mapleVersion |-> mapleVersion, gameVersion |-> gameVersion]
    ELSE repackLayout(calcDirSize(t1, {}), mapleVersion, gameVersion, wzKey)

\* repackWzFile(root, {mapleVersion, gameVersion, wzKey, originalBuffer})
\* with is64Bit = false.  The result is [err, bytes, tree, log, hash,
\* fStart, mapleVersion, gameVersion]: err is a RangeError of the fast
\* path, tree is the root with the annotations and the image results of
\* this run.
repackWzFile(root, mapleVersion, gameVersion, wzKey, originalBuffer) ==
    repackSerialized(serializeImages(root, wzKey, originalBuffer),
                     mapleVersion, gameVersion, wzKey)

-----------------------------------------------------------------------------
(* wz-image.js: the property-list parser.  Numbers the model cannot hold   *)
(* are saturated: an unsigned 32-bit value from 2^31 on reads as 2^31 - 1, *)
(* a position past the end of the buffer as Len + 1; both lie past every   *)
(* buffer of the model and the next read there fails either way.  The      *)
(* payloads of float and double are skipped, not decoded, and the          *)
(* Sound_DX8 block is left out: no archive of the model holds a sound.     *)

\* readUInt32 as a number.
readUInt32(r) ==
    LET u == readWord(r)
    IN  [r |-> u.r,
         v |-> IF u.v[4] >= 128 THEN 2147483647
               ELSE u.v[1] + 256 * u.v[2] + 65536 * u.v[3] + 16777216 * u.v[4]]

\* readInt64 / readUInt64 as a number.
readInt64(r) ==
    LET lo == readWord(r)
        hi == readInt32(lo.r)
    IN  [r |-> hi.r,
         v |-> IF hi.v = 0 /\ lo.v[4] < 128 THEN U32ToInt(lo.v)
               ELSE IF hi.v = -1 /\ lo.v[4] >= 128 THEN U32ToInt(lo.v)
               ELSE IF hi.v < 0 THEN -2147483647 - 1
               ELSE 2147483647]

readCompressedLong(r) ==
    LET sb == readSByte(r)
    IN  IF sb.v = -128 THEN readInt64(sb.r) ELSE sb

\* base + delta as a position of a reader over len bytes.
SeekPos(base, delta, len) == IF delta > len THEN len + 1 ELSE base + delta

Seek(r, pos) == [r EXCEPT !.pos = IF pos > Len(r.bytes) THEN Len(r.bytes) + 1 ELSE pos]

Skip(r, n) == Seek(r, SeekPos(r.pos, n, Len(r.bytes)))

\* readWzStringAtOffset(base + delta)
\* this.pos = saved, after the read res = [r, v].
restorePos(res, saved) == [r |-> [res.r EXCEPT !.pos = saved], v |-> res.v]

readWzStringAtOffset(r, base, delta) ==
    restorePos(readWzString(Seek(r, SeekPos(base - r.startOffset, delta, Len(r.bytes)))),
               r.pos)

readWzStringBlock(r, offset) ==
    LET b == readByte(r)
    IN  IF b.r.err THEN [r |-> b.r, v |-> <<>>]
        ELSE IF b.v \in {0, 115} THEN readWzString(b.r)
        ELSE IF b.v \in {1, 27}
        THEN LET d == readInt32(b.r)
             IN  IF d.r.err THEN [r |-> d.r, v |-> <<>>]
                 ELSE readWzStringAtOffset(d.r, offset, d.v)
        ELSE [r |-> b.r, v |-> <<>>]

RECURSIVE parsePropertyList(_, _)
RECURSIVE parseProperties(_, _, _, _)
RECURSIVE parseExtendedProp(_, _, _)
RECURSIVE parseConvexChildren(_, _, _, _)
RECURSIVE extractMore(_, _, _, _)

\* [r, v]: v is <<>> for null and <<node>> otherwise.
\* The value of a UOL after its type byte b = [r, v]: inline or by offset.
readUolValue(b, offset) ==
    IF b.r.err THEN [r |-> b.r, v |-> <<>>]
    ELSE IF b.v = 0 THEN readWzString(b.r)
    ELSE IF b.v = 1
    THEN LET d == readInt32(b.r)
         IN  IF d.r.err THEN [r |-> d.r, v |-> <<>>]
             ELSE readWzStringAtOffset(d.r, offset, d.v)
    ELSE [r |-> b.r, v |-> <<>>]

uolNode(name, val) == [r |-> val.r, v |-> <<[WzNode(name, "uol") EXCEPT !.str = val.v]>>]

extractMore(r, offset, name, iname) ==
    CASE iname = S_Property ->
           LET pl == parsePropertyList(Skip(r, 2), offset)
           IN  [r |-> pl.r,
                v |-> <<[WzNode(name, "sub") EXCEPT !.children = pl.v, !.parsed = TRUE]>>]
      [] iname = S_Canvas ->
           LET u  == readByte(r)
               f  == readByte(u.r)
               pl == IF f.v = 1 THEN parsePropertyList(Skip(f.r, 2), offset)
                     ELSE [r |-> f.r, v |-> <<>>]
               pw == readCompressedInt(pl.r)
               ph == readCompressedInt(pw.r)
               f1 == readCompressedInt(ph.r)
               f2 == readCompressedInt(f1.r)
               dl == readInt32(Skip(f2.r, 4))
               z  == readByte(dl.r)
               dataLen == IF dl.v = -2147483647 - 1 THEN dl.v ELSE dl.v - 1
           IN  [r |-> IF z.r.err THEN z.r
                      ELSE IF dataLen < -z.r.pos THEN Seek(z.r, -1)
                      ELSE Skip(z.r, dataLen),
                v |-> <<[WzNode(name, "canvas") EXCEPT
                           !.children = pl.v, !.width = pw.v, !.height = ph.v,
                           !.png = <<[format |-> IF f2.v \in 0..255 /\ f1.v \in 0..65535
                                                 THEN f1.v + 256 * f2.v ELSE -1,
                                      dataOffset |-> z.r.pos, dataLength |-> dataLen,
                                      orig |-> <<>>]>>,
                           !.parsed = TRUE]>>]
      [] iname = S_Vector2D ->
           LET vx == readCompressedInt(r)
               vy == readCompressedInt(vx.r)
           IN  [r |-> vy.r, v |-> <<[WzNode(name, "vector") EXCEPT !.x = vx.v, !.y = vy.v]>>]
      [] iname = S_Convex2D ->
           LET cnt == readCompressedInt(r)
               ch  == parseConvexChildren([r |-> cnt.r, v |-> <<>>], offset, 0, cnt.v)
           IN  [r |-> ch.r,
                v |-> <<[WzNode(name, "convex") EXCEPT !.children = ch.v, !.parsed = TRUE]>>]
      [] iname = S_UOL -> uolNode(name, readUolValue(readByte(readByte(r).r), offset))
      [] OTHER -> [r |-> r, v |-> <<>>]

\* st with the nodes of the read res = [r, v] appended.
appendParsed(st, res) == [r |-> res.r, v |-> st.v \o res.v]

\* String(i) for the child names of a convex.
parseConvexChildren(st, offset, i, count) ==
    IF i >= count \/ st.r.err THEN st
    ELSE parseConvexChildren(appendParsed(st, parseExtendedProp(st.r, offset, Digits(i))),
                             offset, i + 1, count)

\* The type name of an extended property after its first byte b = [r, v]
\* (1 or 0x1B: by offset; 0 or 0x73: inline).
readExtendedTypeName(b, offset) ==
    IF b.v \in {1, 27}
    THEN readWzStringAtOffset(readInt32(b.r).r, offset, readInt32(b.r).v)
    ELSE readWzString(b.r)

\* parseExtendedProp from the type name nm = [r, v] on.
extractNamed(nm, offset, name) ==
    IF nm.r.err THEN [r |-> nm.r, v |-> <<>>]
    ELSE extractMore(nm.r, offset, name, nm.v)

parseExtendedProp(r, offset, name) ==
    LET b == readByte(r)
    IN  IF b.r.err THEN [r |-> b.r, v |-> <<>>]
        ELSE IF b.v \in {0, 1, 27, 115}
        THEN extractNamed(readExtendedTypeName(b, offset), offset, name)
        ELSE [r |-> Failed(b.r), v |-> <<>>]

\* case 8 after the value x = [r, v].
stringNode(name, x) == [r |-> x.r, v |-> <<[WzNode(name, "string") EXCEPT !.str = x.v]>>]

\* case 9 without the last line: the reader stays where the sub-parser
\* stopped.
extendedNodeWhereStopped(sz, ex) ==
    [r |-> IF sz.r.err \/ ex.r.err THEN Failed(ex.r) ELSE ex.r, v |-> ex.v]

\* case 9 after the block ex = [r, v]: reader.pos = eob.
extendedNode(sz, ex) ==
    [r |-> IF sz.r.err \/ ex.r.err THEN Failed(ex.r)
           ELSE Seek(ex.r, SeekPos(sz.r.pos, sz.v, Len(sz.r.bytes))),
     v |-> ex.v]

\* The switch of parsePropertyList on the type byte pt = [r, v] of the
\* property called name.
parsePropertyValue(pt, offset, name) ==
    CASE pt.r.err -> [r |-> pt.r, v |-> <<>>]
      [] pt.v = 0 -> [r |-> pt.r, v |-> <<WzNode(name, "null")>>]
      [] pt.v \in {2, 11} ->
           LET x == readInt16(pt.r)
           IN  [r |-> x.r, v |-> <<[WzNode(name, "short") EXCEPT !.num = x.v]>>]
      [] pt.v \in {3, 19} ->
           LET x == readCompressedInt(pt.r)
           IN  [r |-> x.r, v |-> <<[WzNode(name, "int") EXCEPT !.num = x.v]>>]
      [] pt.v = 20 ->
           LET x == readCompressedLong(pt.r)
           IN  [r |-> x.r, v |-> <<[WzNode(name, "long") EXCEPT !.num = x.v]>>]
      [] pt.v = 4 ->
           LET ft == readByte(pt.r)
               x  == IF ft.v = 128 THEN readBytes(ft.r, 4) ELSE ft
           IN  [r |-> x.r, v |-> <<WzNode(name, "float")>>]
      [] pt.v = 5 ->
           LET x == readBytes(pt.r, 8)
           IN  [r |-> x.r, v |-> <<WzNode(name, "double")>>]
      [] pt.v = 8 -> stringNode(name, readWzStringBlock(pt.r, offset))
      [] pt.v = 9 ->
           extendedNode(readUInt32(pt.r),
                        parseExtendedProp(readUInt32(pt.r).r, offset, name))
      [] OTHER -> [r |-> Failed(pt.r), v |-> <<>>]

\* One property from its name nm = [r, v] on.
parseProperty(nm, offset) == parsePropertyValue(readByte(nm.r), offset, nm.v)

\* The loop of parsePropertyList; st is [r, v] with v the nodes so far.
parseProperties(st, offset, i, count) ==
    IF i >= count \/ st.r.err THEN st
    ELSE parseProperties(
             appendParsed(st, parseProperty(readWzStringBlock(st.r, offset), offset)),
             offset, i + 1, count)

parsePropertyList(r, offset) ==
    LET count == readCompressedInt(r)
    IN  parseProperties([r |-> count.r, v |-> <<>>], offset, 0, count.v)

\* parseImageFromReader from the header string prop = [r, v] on.
parseImageBody(prop, val, offset) ==
    IF val.r.err \/ prop.v # S_Property \/ val.v # 0
    THEN [r |-> Failed(val.r), v |-> <<>>]
    ELSE parsePropertyList(val.r, offset)

parseImageHeader(prop, offset) == parseImageBody(prop, readUInt16(prop.r), offset)

\* [r, v]: the children; r.err is set when the parser throws.
parseImageFromReader(r, offset) ==
    LET b == readByte(r)
    IN  IF b.r.err THEN [r |-> b.r, v |-> <<>>]
        ELSE IF b.v = 1 THEN [r |-> b.r, v |-> <<>>]
        ELSE IF b.v # 115 THEN [r |-> Failed(b.r), v |-> <<>>]
        ELSE parseImageHeader(readWzString(b.r), offset)

-----------------------------------------------------------------------------
(* wz-tool.js and wz-file.js: version hash check, 64-bit detection and the *)
(* directory parser, for an explicit patch version.                        *)

WZ_VERSION_HEADER_64BIT_START == 770

\* 0 (invalid) is the word <<0, 0, 0, 0>>.
checkAndGetVersionHash(wzVersionHeader, maplestoryPatchVersion) ==
    LET versionHash == versionHashOf(maplestoryPatchVersion)
    IN  IF wzVersionHeader = WZ_VERSION_HEADER_64BIT_START THEN versionHash
        ELSE IF wzVersionHeader = versionHeaderOf(versionHash) THEN versionHash
        ELSE U32FromNat(0)

\* [r, v]: v = TRUE for a 64-bit archive; the reader with header set.
check64BitClient(r, fSize, fStart) ==
    IF fSize >= 2
    THEN LET encver == readUInt16(Seek(r, fStart))
         IN  IF encver.r.err THEN [r |-> encver.r, v |-> FALSE]
             ELSE IF encver.v > 255 THEN [r |-> r, v |-> TRUE]
             ELSE IF encver.v = 128 /\ fSize >= 5
             THEN LET propCount == readInt32(Seek(r, fStart))
                  IN  IF propCount.r.err THEN [r |-> propCount.r, v |-> FALSE]
                      ELSE IF propCount.v > 0 /\ propCount.v % 256 = 0 /\ propCount.v <= 65535
                      THEN [r |-> r, v |-> TRUE]
                      ELSE [r |-> Seek(r, fStart), v |-> FALSE]
             ELSE [r |-> Seek(r, fStart), v |-> FALSE]
    ELSE [r |-> r, v |-> TRUE]

\* readNullTerminatedString: the reader after it.
readNullTerminatedString(r) ==
    LET zeros == {j \in (r.pos + 1)..Len(r.bytes) : r.bytes[j] = 0}
    IN  IF zeros = {} THEN Seek(r, Len(r.bytes))
        ELSE Seek(r, CHOOSE j \in zeros : \A k \in zeros : j <= k)

MaxParseDepth == 6

\* A word as an offset.
OffsetOf(word) ==
    IF word[4] >= 128 THEN 2147483647
    ELSE word[1] + 256 * word[2] + 65536 * word[3] + 16777216 * word[4]

RECURSIVE parseDirectory(_, _, _, _, _)
RECURSIVE parseDirectoryEntries(_, _, _, _, _)
RECURSIVE parseSubdirectories(_, _, _, _, _)

\* The name of an entry of type 2, 3 or 4: for type 2 it is read at
\* fStart + the stored offset, after the type byte found there.
readEntryName(type, fStart) ==
    readWzString(IF type.v = 2
                 THEN LET so == readInt32(type.r)
                      IN  readByte(Seek(so.r, SeekPos(fStart, so.v, Len(so.r.bytes)))).r
                 ELSE type.r)

\* An entry of type 2, 3 or 4 from its name nm = [r, v] on: st with the
\* child added.
parseDirectoryEntry(st, type, nm, fStart, versionHash) ==
    LET rememberPos == IF type.v = 2 THEN readInt32(type.r).r.pos ELSE nm.r.pos
        fsize    == readCompressedInt(Seek(nm.r, rememberPos))
        checksum == readCompressedInt(fsize.r)
        off      == readWzOffset(checksum.r)
        offset   == OffsetOf(off.v)
        node ==
          IF type.v = 3 \/ (type.v = 2 /\ ~endsWith(nm.v, S_DotImg))
          THEN [WzNode(nm.v, "dir") EXCEPT
                  !.binaryOffset = offset, !.binarySize = fsize.v]
          ELSE [WzNode(nm.v, "image") EXCEPT
                  !.binaryOffset = offset, !.binarySize = fsize.v,
                  !.bsrc = <<[offset |-> offset, length |-> fsize.v,
                              hash |-> versionHash, headerFStart |-> fStart]>>]
    IN  IF nm.r.err \/ off.r.err THEN [r |-> Failed(off.r), v |-> st.v]
        ELSE [r |-> off.r, v |-> Append(st.v, node)]

\* The entry loop; st is [r, v] with v the children so far.
parseDirectoryEntries(st, fStart, versionHash, i, entryCount) ==
    IF i >= entryCount \/ st.r.err THEN st
    ELSE LET type == readByte(st.r)
         IN  IF type.r.err THEN [r |-> type.r, v |-> st.v]
             ELSE IF type.v = 1
             THEN LET o == readWzOffset(readInt16(readInt32(type.r).r).r)
                  IN  parseDirectoryEntries([r |-> o.r, v |-> st.v], fStart, versionHash,
                                            i + 1, entryCount)
             ELSE IF type.v \notin {2, 3, 4} THEN [r |-> Failed(type.r), v |-> st.v]
             ELSE parseDirectoryEntries(
                      parseDirectoryEntry(st, type, readEntryName(type, fStart), fStart,
                                          versionHash),
                      fStart, versionHash, i + 1, entryCount)

\* The recursion into the subdirectories, in entry order.
parseSubdirectories(st, fStart, versionHash, i, depth) ==
    IF i > Len(st.v) \/ st.r.err THEN st
    ELSE IF st.v[i].type = "dir"
    THEN LET sub == parseDirectory(Seek(st.r, st.v[i].binaryOffset), st.v[i], fStart,
                                   versionHash, depth + 1)
         IN  parseSubdirectories(
                 [r |-> sub.r, v |-> [st.v EXCEPT ![i] = [sub.node EXCEPT !.parsed = TRUE]]],
                 fStart, versionHash, i + 1, depth)
    ELSE parseSubdirectories(st, fStart, versionHash, i + 1, depth)

\* parentNode.addChild(child) for the children ds = [r, v].
withChildren(parentNode, ds) ==
    [r |-> ds.r, node |-> [parentNode EXCEPT !.children = @ \o ds.v]]

\* [r, node]: parentNode with the children added; r.err when the parser
\* throws (a recursion deeper than MaxParseDepth counts as the stack
\* overflow of an archive whose directories refer to each other).
parseDirectory(r, parentNode, fStart, versionHash, depth) ==
    IF depth > MaxParseDepth THEN [r |-> Failed(r), node |-> parentNode]
    ELSE IF Len(r.bytes) - r.pos <= 0 THEN [r |-> r, node |-> parentNode]
    ELSE LET entryCount == readCompressedInt(r)
         IN  IF entryCount.r.err \/ entryCount.v < 0 \/ entryCount.v > 100000
             THEN [r |-> Failed(entryCount.r), node |-> parentNode]
             ELSE withChildren(
                      parentNode,
                      parseSubdirectories(
                          parseDirectoryEntries([r |-> entryCount.r, v |-> <<>>], fStart,
                                                versionHash, 0, entryCount.v),
                          fStart, versionHash, 1, depth))

\* The result of parseWzFile after parseDirectory returned res = [r, node];
\* bad is the result when the parser throws.
parsedFile(res, bad, gameVersion, is64Bit, mapleVersion, versionHash, fStart) ==
    IF res.r.err THEN bad
    ELSE [err |-> FALSE, root |-> res.node, version |-> gameVersion, is64Bit |-> is64Bit,
          mapleVersion |-> mapleVersion, hash |-> versionHash, fStart |-> fStart]

\* parseWzFile(buffer, fileName, mapleVersion, gameVersion) for an explicit
\* mapleVersion and gameVersion.  [err, root, version, is64Bit,
\* mapleVersion, hash, fStart]; err when the parser throws.
parseWzFile(buffer, fileName, mapleVersion, gameVersion) ==
    LET t0     == NewReader(buffer, generateWzKey(getIvByMapleVersion("BMS")), 0)
        ident  == readBytes(t0, 4)
        fSize  == readInt64(ident.r)
        fStart == readUInt32(fSize.r)
        t1     == readNullTerminatedString(fStart.r)
        c64    == check64BitClient([t1 EXCEPT !.fStart = fStart.v],
                                   IF fSize.v < 0 THEN 2147483647 ELSE fSize.v, fStart.v)
        vh     == IF c64.v THEN [r |-> c64.r, v |-> WZ_VERSION_HEADER_64BIT_START]
                  ELSE readUInt16(Seek(c64.r, fStart.v))
        versionHash == checkAndGetVersionHash(vh.v, gameVersion)
        wzKey  == generateWzKey(getIvByMapleVersion(mapleVersion))
        rd     == [NewReader(buffer, wzKey, 0) EXCEPT
                     !.fStart = fStart.v, !.hash = versionHash,
                     !.pos = fStart.v + (IF c64.v THEN 0 ELSE 2)]
        root   == [WzNode(fileName, "file") EXCEPT !.parsed = TRUE]
        bad    == [err |-> TRUE, root |-> root, version |-> gameVersion, is64Bit |-> FALSE,
                   mapleVersion |-> mapleVersion, hash |-> U32FromNat(0), fStart |-> 0]
    IN  IF ident.r.err \/ ident.v # S_PKG1 THEN bad
        ELSE IF fStart.r.err \/ c64.r.err \/ vh.r.err THEN bad
        ELSE IF versionHash = U32FromNat(0) THEN bad
        ELSE parsedFile(parseDirectory(rd, root, fStart.v, versionHash, 0), bad,
                        gameVersion, c64.v, mapleVersion, versionHash, fStart.v)

\* The message of the worker for the parse res = [r, v]: an error when
\* the parser threw, the children otherwise.
imageChildren(res) == [err |-> res.r.err, children |-> res.v]

\* The 'parseImage' command of the worker on the slice the image's
\* _binarySource names: [err, children].
parseImage(buffer, mapleVersion, offset, hash, fStart) ==
    imageChildren(
        parseImageFromReader(
            [NewReader(buffer, generateWzKey(getIvByMapleVersion(mapleVersion)), offset)
                EXCEPT !.hash = hash, !.fStart = fStart],
            offset))

-----------------------------------------------------------------------------
(* Idle values of the variables a specification does not use.              *)

IdleKey   == gens = <<>> /\ obs = <<>>
IdleCodec == cIn = <<>> /\ cBuf = <<>> /\ cOut = <<>> /\ cKey = <<>>
IdleArchive == doc = <<>> /\ src = <<>> /\ out = <<>> /\ back = <<>> /\ opens = 0
IdleIntern == sKids = <<>> /\ sImg = <<>> /\ sBack = <<>>
IdleDetect == dDoc = <<>> /\ dOut = <<>> /\ dGot = <<>>
IdlePixel == pxIn = <<>> /\ pxOut = <<>>
IdleNode == nParent = <<>> /\ nKids = <<>> /\ nStack = <<>> /\ nPtr = -1
IdleLoad == lSrc = <<>> /\ lDoc = <<>> /\ lCall = <<>>
IdleInflate == zIn = <<>> /\ zRun = <<>>
IdleWs == wConn = <<>> /\ wAll = <<>> /\ wRooms = <<>> /\ wAuth = <<>> /\ wSent = <<>> /\ wLast = <<>>
IdleUndo == uStack = <<>> /\ uPtr = <<>> /\ uMax = <<>> /\ uLast = <<>>
IdleDrop == dDrops = <<>> /\ dNext = <<>> /\ dNow = <<>> /\ dSent = <<>> /\ dIds = <<>> /\ dLast = <<>>
IdleLong == qIn = <<>> /\ qBuf = <<>> /\ qOut = <<>>
IdleParse == pIn = <<>> /\ pOut = <<>>
IdleLater == IdleIntern /\ IdleDetect /\ IdlePixel /\ IdleNode /\ IdleLoad /\ IdleInflate /\ IdleWs /\ IdleUndo /\ IdleDrop /\ IdleLong /\ IdleParse
IdleEarly == IdleKey /\ IdleCodec /\ IdleArchive
IdleExceptIntern == IdleEarly /\ IdleDetect /\ IdlePixel /\ IdleNode /\ IdleLoad /\ IdleInflate /\ IdleWs /\ IdleUndo /\ IdleDrop /\ IdleLong /\ IdleParse
IdleExceptDetect == IdleEarly /\ IdleIntern /\ IdlePixel /\ IdleNode /\ IdleLoad /\ IdleInflate /\ IdleWs /\ IdleUndo /\ IdleDrop /\ IdleLong /\ IdleParse
IdleExceptPixel == IdleEarly /\ IdleIntern /\ IdleDetect /\ IdleNode /\ IdleLoad /\ IdleInflate /\ IdleWs /\ IdleUndo /\ IdleDrop /\ IdleLong /\ IdleParse
IdleExceptNode == IdleEarly /\ IdleIntern /\ IdleDetect /\ IdlePixel /\ IdleLoad /\ IdleInflate /\ IdleWs /\ IdleUndo /\ IdleDrop /\ IdleLong /\ IdleParse
IdleExceptLoad == IdleEarly /\ IdleIntern /\ IdleDetect /\ IdlePixel /\ IdleNode /\ IdleInflate /\ IdleWs /\ IdleUndo /\ IdleDrop /\ IdleLong /\ IdleParse
IdleExceptInflate == IdleEarly /\ IdleIntern /\ IdleDetect /\ IdlePixel /\ IdleNode /\ IdleLoad /\ IdleWs /\ IdleUndo /\ IdleDrop /\ IdleLong /\ IdleParse
IdleExceptWs == IdleEarly /\ IdleIntern /\ IdleDetect /\ IdlePixel /\ IdleNode /\ IdleLoad /\ IdleInflate /\ IdleUndo /\ IdleDrop /\ IdleLong /\ IdleParse
IdleExceptUndo == IdleEarly /\ IdleIntern /\ IdleDetect /\ IdlePixel /\ IdleNode /\ IdleLoad /\ IdleInflate /\ IdleWs /\ IdleDrop /\ IdleLong /\ IdleParse
IdleExceptDrop == IdleEarly /\ IdleIntern /\ IdleDetect /\ IdlePixel /\ IdleNode /\ IdleLoad /\ IdleInflate /\ IdleWs /\ IdleUndo /\ IdleLong /\ IdleParse
IdleExceptLong == IdleEarly /\ IdleIntern /\ IdleDetect /\ IdlePixel /\ IdleNode /\ IdleLoad /\ IdleInflate /\ IdleWs /\ IdleUndo /\ IdleDrop /\ IdleParse
IdleExceptParse == IdleEarly /\ IdleIntern /\ IdleDetect /\ IdlePixel /\ IdleNode /\ IdleLoad /\ IdleInflate /\ IdleWs /\ IdleUndo /\ IdleDrop /\ IdleLong

-----------------------------------------------------------------------------
(* Keystream specification: two generators built for the same IV are       *)
(* asked for bytes (at) and for sizes (ensureKeySize) in any order.        *)

Generators == {1, 2}

MaxKeyIndex == MaxKeyBatches * BATCH_SIZE - 1

KeyProbes == {0, 15, 16, BATCH_SIZE - 1, BATCH_SIZE, MaxKeyIndex}

KeySizes == {0, 1, BATCH_SIZE, BATCH_SIZE + 1, MaxKeyIndex + 1}

InitKey ==
    /\ \E ver \in {"GMS", "EMS", "BMS"} :
           gens = [g \in Generators |-> generateWzKey(getIvByMapleVersion(ver))]
    /\ obs = [gen |-> 0, idx |-> -1, byte |-> -1]
    /\ IdleCodec
    /\ IdleArchive
    /\ IdleLater

KeyAt(g, i) ==
    LET r == keyAt(gens[g], i)
    IN  /\ gens' = [gens EXCEPT ![g] = r.key]
        /\ obs' = [gen |-> g, idx |-> i, byte |-> r.byte]
        /\ UNCHANGED <<codecVars, archVars, laterVars>>

KeyEnsure(g, n) ==
    /\ gens' = [gens EXCEPT ![g] = ensureKeySize(gens[g], n)]
    /\ UNCHANGED <<obs, codecVars, archVars, laterVars>>

NextKey ==
    \/ \E g \in Generators, i \in KeyProbes : KeyAt(g, i)
    \/ \E g \in Generators, n \in KeySizes : KeyEnsure(g, n)

SpecKey == InitKey /\ [][NextKey]_vars

NonZeroIv(k) == k.iv # WZ_BMSIV

\* C10: for a fixed IV and user key the keystream byte at an index does not
\* depend on the requests that grew the stream: the two generators, grown by
\* any two sequences of at(i) and ensureKeySize(n) calls, hold the same byte
\* at every index both have generated, and the byte the last at(i) returned
\* is the byte every generator holds at i, now and after any later growth.
KeystreamHistoryIndependent ==
    /\ \A i \in 0..MaxKeyIndex :
           (i < KeyLength(gens[1]) /\ i < KeyLength(gens[2]))
               => gens[1].keys[1][i + 1] = gens[2].keys[1][i + 1]
    /\ obs.idx >= 0 =>
           \A g \in Generators :
               obs.idx < KeyLength(gens[g]) => gens[g].keys[1][obs.idx + 1] = obs.byte

\* An encrypting generator grown in two steps past its first batch has
\* answered at(MaxKeyIndex) while the other one stopped after one batch.
KeystreamGrownTwoWays ==
    /\ NonZeroIv(gens[1])
    /\ obs.gen = 1 /\ obs.idx = MaxKeyIndex /\ obs.byte # 0
    /\ KeyLength(gens[1]) > BATCH_SIZE
    /\ KeyLength(gens[2]) = BATCH_SIZE

-----------------------------------------------------------------------------
(* Compressed-int specification: a signed 32-bit value is written by       *)
(* writeCompressedInt into an empty buffer and read back by                *)
(* readCompressedInt.                                                      *)

MaxSmallInt == 200

MaxInt32 == 2147483647

MinInt32 == -2147483647 - 1

IntInputs ==
    (-MaxSmallInt..MaxSmallInt)
        \cup {MinInt32, MinInt32 + 1, MaxInt32, MaxInt32 - 1, 32767, 32768, -32768,
              -32769, 65535, 65536, 305419896, -305419896, 16777216, -16777216}

InitCInt ==
    /\ cIn \in IntInputs
    /\ cBuf = <<>> /\ cOut = <<>> /\ cKey = <<>>
    /\ IdleKey
    /\ IdleArchive
    /\ IdleLater

WriteCInt ==
    /\ cBuf = <<>>
    /\ cBuf' = <<writeCompressedInt(NewWriter(generateWzKey(WZ_BMSIV), U32FromNat(0), 0), cIn).buf>>
    /\ UNCHANGED <<cIn, cOut, cKey, keyVars, archVars, laterVars>>

ReadCInt ==
    /\ cBuf # <<>> /\ cOut = <<>>
    /\ LET res == readCompressedInt(NewReader(cBuf[1], generateWzKey(WZ_BMSIV), 0))
       IN  cOut' = <<[v |-> res.v, pos |-> res.r.pos, err |-> res.r.err]>>
    /\ UNCHANGED <<cIn, cBuf, cKey, keyVars, archVars, laterVars>>

NextCInt == WriteCInt \/ ReadCInt

SpecCInt == InitCInt /\ [][NextCInt]_vars

\* The signed value of four little-endian bytes b1..b4, by place value.
LittleEndianValue(b1, b2, b3, b4) ==
    IF b4 < 128 THEN b1 + 256 * b2 + 65536 * b3 + 16777216 * b4
    ELSE (b1 + 256 * b2 + 65536 * b3 + 16777216 * (b4 - 128)) - MaxInt32 - 1

\* C9: reading the form writeCompressedInt emitted for a signed 32-bit v
\* returns v and consumes exactly the emitted bytes; a v outside -127..127
\* (-128 included) is emitted as 0x80 followed by the four little-endian
\* bytes of v, -128 as 80 80 FF FF FF, and any other v as its single byte.
CompressedIntRoundTrip ==
    /\ cOut # <<>> =>
           /\ ~cOut[1].err
           /\ cOut[1].v = cIn
           /\ cOut[1].pos = Len(cBuf[1])
    /\ cBuf # <<>> =>
           LET b == cBuf[1]
           IN  IF cIn > 127 \/ cIn < -127
               THEN /\ Len(b) = 5
                    /\ b[1] = 128
                    /\ LittleEndianValue(b[2], b[3], b[4], b[5]) = cIn
                    /\ (cIn = -128 => b = <<128, 128, 255, 255, 255>>)
               ELSE /\ Len(b) = 1
                    /\ b[1] = (cIn + 256) % 256

\* -128 has been written in the long form and read back.
CompressedIntSentinelRead ==
    /\ cIn = -128
    /\ cBuf = <<(<<128, 128, 255, 255, 255>>)>>
    /\ cOut # <<>> /\ cOut[1].v = -128 /\ cOut[1].pos = 5

-----------------------------------------------------------------------------
(* String specification: a string of UTF-16 code units is written by       *)
(* writeWzString into an empty buffer and read back by readWzString with   *)
(* a key of the same IV, either the writer's grown key or a fresh one.     *)

MaxStrLen == 2

StringUnits == {65, 127, 128, 255, 256, 65535}

\* Lengths around the long-prefix thresholds of the two encodings.
LongLens == {126, 127, 128}

RECURSIVE ShortStrings(_)
ShortStrings(n) ==
    IF n = 0 THEN {<<>>}
    ELSE LET prev == ShortStrings(n - 1)
         IN  prev \cup {Append(t, c) : t \in {u \in prev : Len(u) = n - 1}, c \in StringUnits}

StringInputs ==
    ShortStrings(MaxStrLen)
        \cup {Rep(c, n) : c \in {97, 200, 300}, n \in LongLens}
        \cup {Append(Rep(97, n - 1), 200) : n \in LongLens}

InitString ==
    /\ cIn \in StringInputs
    /\ \E ver \in {"GMS", "BMS"} : cKey = generateWzKey(getIvByMapleVersion(ver))
    /\ cBuf = <<>> /\ cOut = <<>>
    /\ IdleKey
    /\ IdleArchive
    /\ IdleLater

WriteString ==
    /\ cBuf = <<>>
    /\ LET w == writeWzString(NewWriter(cKey, U32FromNat(0), 0), cIn)
       IN  /\ cBuf' = <<w.buf>>
           /\ cKey' = w.key
    /\ UNCHANGED <<cIn, cOut, keyVars, archVars, laterVars>>

ReadString ==
    /\ cBuf # <<>> /\ cOut = <<>>
    /\ \E k \in {cKey, generateWzKey(cKey.iv)} :
           LET res == readWzString(NewReader(cBuf[1], k, 0))
           IN  /\ cOut' = <<[v |-> res.v, pos |-> res.r.pos, err |-> res.r.err]>>
               /\ cKey' = res.r.key
    /\ UNCHANGED <<cIn, cBuf, keyVars, archVars, laterVars>>

NextString == WriteString \/ ReadString

SpecString == InitString /\ [][NextString]_vars

\* C8: reading the encrypted form writeWzString emitted for a string of
\* UTF-16 code units, with a keystream of the same IV, returns the string
\* and consumes the emitted bytes, and the reader takes its unicode branch
\* exactly when the writer took its unicode branch.
WzStringRoundTrip ==
    /\ cOut # <<>> =>
           /\ ~cOut[1].err
           /\ cOut[1].v = cIn
           /\ cOut[1].pos = Len(cBuf[1])
    /\ cBuf # <<>> =>
           (ReadsUnicode(NewReader(cBuf[1], cKey, 0)) <=> NeedsUnicode(cIn))

\* A 127-unit string with a unit above 127 was written in the unicode form
\* with the long length prefix under an encrypting key, and read back.
WzStringUnicode127Read ==
    /\ Len(cIn) = 127 /\ NeedsUnicode(cIn)
    /\ NonZeroIv(cKey)
    /\ cBuf # <<>> /\ Len(cBuf[1]) = 5 + 2 * 127 /\ cBuf[1][1] = 127
    /\ cOut # <<>> /\ cOut[1].v = cIn

-----------------------------------------------------------------------------
(* Offset specification: writeOffset stores a target at a stream position  *)
(* and readWzOffset, placed on the same position with the same hash and    *)
(* data-section start, reads it back.                                      *)

OffsetPositions == {0, 62, 256, 300}

OffsetStarts == {0, 60, 76}

OffsetHashes ==
    {Hex32(107, 79, 42, 49), Hex32(0, 0, 7, 84), Hex32(255, 255, 255, 255), Hex32(0, 0, 0, 0)}

OffsetTargets ==
    {Hex32(0, 0, 32, 0), Hex32(0, 0, 0, 0), Hex32(255, 255, 255, 255), Hex32(128, 0, 0, 1)}

InitOffset ==
    /\ cIn \in [pos : OffsetPositions, fStart : OffsetStarts,
                hash : OffsetHashes, target : OffsetTargets]
    /\ cBuf = <<>> /\ cOut = <<>> /\ cKey = <<>>
    /\ IdleKey
    /\ IdleArchive
    /\ IdleLater

WriteOffset ==
    /\ cBuf = <<>>
    /\ LET w0 == NewWriter(generateWzKey(WZ_BMSIV), cIn.hash, cIn.fStart)
           w1 == writeBytes(w0, Rep(0, cIn.pos))
       IN  cBuf' = <<writeOffset(w1, cIn.target).buf>>
    /\ UNCHANGED <<cIn, cOut, cKey, keyVars, archVars, laterVars>>

ReadOffset ==
    /\ cBuf # <<>> /\ cOut = <<>>
    /\ LET r0 == NewReader(cBuf[1], generateWzKey(WZ_BMSIV), 0)
           r1 == [r0 EXCEPT !.pos = cIn.pos, !.hash = cIn.hash, !.fStart = cIn.fStart]
           res == readWzOffset(r1)
       IN  cOut' = <<[v |-> res.v, pos |-> res.r.pos, err |-> res.r.err]>>
    /\ UNCHANGED <<cIn, cBuf, cKey, keyVars, archVars, laterVars>>

NextOffset == WriteOffset \/ ReadOffset

SpecOffset == InitOffset /\ [][NextOffset]_vars

\* C7: for every stream position, target, version hash and data-section
\* start, the word writeOffset stores at the position is read back by
\* readWzOffset at the same position as the target, modulo 2^32.
OffsetRoundTrip ==
    cOut # <<>> =>
        /\ ~cOut[1].err
        /\ cOut[1].v = cIn.target
        /\ cOut[1].pos = cIn.pos + 4

\* Hash 0x6B4F2A31, start 0x4C, position 0x100, target 0x2000 written and
\* read back.
OffsetExampleRead ==
    /\ cIn = [pos |-> 256, fStart |-> 76, hash |-> Hex32(107, 79, 42, 49),
              target |-> Hex32(0, 0, 32, 0)]
    /\ cBuf # <<>> /\ Len(cBuf[1]) = 260
    /\ cOut # <<>> /\ cOut[1].v = <<0, 32, 0, 0>>

-----------------------------------------------------------------------------
(* Archive specification: the editor holds a tree (doc), built in memory   *)
(* or parsed from an archive (src); it loads images on demand, marks nodes *)
(* modified, repacks the tree (out) and opens archives, among them the one *)
(* it has just written.  out is the last save of the tree as it stands and *)
(* back the re-parse of that save with every image loaded: a change of the *)
(* tree forgets both.                                                      *)

\* Archives the editor opens in one run.
MaxOpens == 1

RECURSIVE PathsOf(_)
\* The paths (child indices from the root) of the nodes of a tree.
PathsOf(node) ==
    {<<>>} \cup UNION {{<<i>> \o p : p \in PathsOf(node.children[i])} :
                          i \in 1..Len(node.children)}

RECURSIVE NodeAt(_, _)
NodeAt(node, path) ==
    IF path = <<>> THEN node ELSE NodeAt(node.children[Head(path)], Tail(path))

RECURSIVE ReplaceAt(_, _, _)
ReplaceAt(node, path, new) ==
    IF path = <<>> THEN new
    ELSE [node EXCEPT !.children =
             Tup([i \in 1..Len(node.children) |->
                     IF i = Head(path) THEN ReplaceAt(node.children[i], Tail(path), new)
                     ELSE node.children[i]])]

RECURSIVE ShapeOf(_)
\* What a round trip has to preserve of a node: name, type, values and
\* the children in their order.
ShapeOf(node) ==
    [name |-> node.name, type |-> node.type, num |-> node.num, str |-> node.str,
     x |-> node.x, y |-> node.y, width |-> node.width, height |-> node.height,
     children |-> Tup([i \in 1..Len(node.children) |-> ShapeOf(node.children[i])])]

RECURSIVE dropImageData(_)
\* imageDataMap is local to repackWzFile: the tree the editor keeps holds
\* the _wz annotations of the run and none of the image buffers.
dropImageData(node) ==
    [node EXCEPT !.img = <<>>,
                 !.children = Tup([i \in 1..Len(node.children) |->
                                      dropImageData(node.children[i])])]

\* buffer.slice(offset, offset + length)
sliceOf(buffer, offset, length) ==
    IF offset >= Len(buffer) \/ length <= 0 THEN <<>>
    ELSE SubSeq(buffer, offset + 1,
                IF length > Len(buffer) - offset THEN Len(buffer) ELSE offset + length)

\* The editor's handler of the worker's answer res = [err, children].
attachChildren(node, res) ==
    IF res.err THEN node
    ELSE [node EXCEPT !.children = Tup(res.children), !.parsed = TRUE]

\* parse_image that parses the provenance again when the node is populated.
parse_imageAgain(node, buffer, mapleVersion) ==
    IF node.bsrc = <<>> THEN node
    ELSE LET bs == node.bsrc[1]
         IN  attachChildren(node, parseImage(sliceOf(buffer, bs.offset, bs.length),
                                             mapleVersion, bs.offset, bs.hash,
                                             bs.headerFStart))

\* parse_image(image_node): the worker parses the slice the node's
\* _binarySource names and the editor attaches the children; a node
\* already parsed is left alone, and so is one whose parse throws.
parse_image(node, buffer, mapleVersion) ==
    IF node.parsed \/ node.bsrc = <<>> THEN node
    ELSE LET bs == node.bsrc[1]
         IN  attachChildren(node, parseImage(sliceOf(buffer, bs.offset, bs.length),
                                             mapleVersion, bs.offset, bs.hash,
                                             bs.headerFStart))

RECURSIVE parseAllImages(_, _, _)
parseAllImages(node, buffer, mapleVersion) ==
    IF node.type = "image" THEN parse_image(node, buffer, mapleVersion)
    ELSE IF node.type \in {"dir", "file"}
    THEN [node EXCEPT !.children =
             Tup([i \in 1..Len(node.children) |->
                     parseAllImages(node.children[i], buffer, mapleVersion)])]
    ELSE node

\* parse_image of every image of the parse p of the archive a.
loadAllImages(p, a) ==
    IF p.err THEN [err |-> TRUE, root |-> WzNode(a.fileName, "file")]
    ELSE [err |-> FALSE, root |-> parseAllImages(p.root, a.bytes, a.mapleVersion)]

\* parse_archive followed by parse_image of every image: [err, root].
parseArchiveFully(a) ==
    loadAllImages(parseWzFile(a.bytes, a.fileName, a.mapleVersion, a.gameVersion), a)

\* An archive written by another tool (images before directories, one
\* 16-bit zero ahead of the property count, offsets that point at the data):
\* BMS, patch 83, root[c.img[canvas p 1x1, int n = 42], d[n.img[int v = 7]]].
FixtureBytes ==
    <<80, 75, 71, 49, 125, 0, 0, 0, 0, 0, 0, 0, 60, 0, 0, 0, 80, 97, 99, 107,
      97, 103, 101, 32, 102, 105, 108, 101, 32, 118, 49, 46, 48, 32, 67, 111,
      112, 121, 114, 105, 103, 104, 116, 32, 50, 48, 48, 50, 32, 87, 105,
      122, 101, 116, 44, 32, 90, 77, 83, 0, 172, 0, 2, 4, 251, 201, 133, 197,
      192, 201, 60, 128, 187, 20, 0, 0, 12, 94, 14, 44, 3, 255, 206, 18, 0,
      222, 162, 239, 231, 1, 4, 251, 196, 133, 197, 192, 201, 18, 128, 248,
      9, 0, 0, 50, 241, 19, 63, 115, 248, 250, 217, 195, 221, 203, 221, 196,
      200, 0, 0, 2, 0, 255, 218, 9, 34, 0, 0, 0, 115, 250, 233, 202, 194,
      219, 207, 220, 0, 0, 1, 1, 1, 0, 0, 0, 0, 0, 12, 0, 0, 0, 0, 120, 156,
      99, 96, 96, 0, 0, 0, 4, 0, 1, 0, 255, 196, 3, 42, 115, 248, 250, 217,
      195, 221, 203, 221, 196, 200, 0, 0, 1, 0, 255, 220, 3, 7>>

FixtureArchive ==
    [bytes |-> FixtureBytes, fileName |-> <<70, 46, 119, 122>>,
     mapleVersion |-> "BMS", gameVersion |-> 83]

\* Trees built in memory.
Built(name, type, kids) == [WzNode(name, type) EXCEPT !.children = kids, !.parsed = TRUE]

IntNode(name, v) == [WzNode(name, "int") EXCEPT !.num = v]

N_Root  == <<84, 46, 119, 122>>                      \* "T.wz"
N_Test  == <<84, 101, 115, 116, 46, 105, 109, 103>>  \* "Test.img"
N_A     == <<65, 46, 105, 109, 103>>                 \* "A.img"
N_B     == <<66, 46, 105, 109, 103>>                 \* "B.img"
N_D     == <<68>>                                    \* "D"
N_alpha == <<97, 108, 112, 104, 97>>                 \* "alpha"
N_gamma == <<103, 97, 109, 109, 97>>                 \* "gamma"
N_e     == <<233>>                                   \* e with an acute accent
N_n     == <<110>>                                   \* "n"

\* Scenario E1: root[Test.img[int n = 42]].
TreeE1 == Built(N_Root, "file", <<Built(N_Test, "image", <<IntNode(N_n, 42)>>)>>)

BuiltTrees ==
    {TreeE1,
     \* no entry at all
     Built(N_Root, "file", <<>>),
     \* one empty image
     Built(N_Root, "file", <<Built(N_A, "image", <<>>)>>),
     \* a directory ahead of an image
     Built(N_Root, "file", <<Built(N_D, "dir", <<>>), Built(N_A, "image", <<>>)>>),
     \* an image beside a directory that holds an image
     Built(N_Root, "file", <<Built(N_A, "image", <<>>),
                             Built(N_D, "dir", <<Built(N_B, "image", <<>>)>>)>>),
     \* a directory name with a character above 127
     Built(N_Root, "file", <<Built(N_e, "dir", <<>>)>>),
     \* a name of five characters in two directories
     Built(N_Root, "file", <<Built(N_alpha, "dir", <<Built(N_gamma, "dir", <<>>)>>),
                             Built(N_gamma, "dir", <<>>)>>),
     \* the same name in one directory only: nothing repeats across directories
     Built(N_Root, "file", <<Built(N_alpha, "dir", <<Built(N_gamma, "dir", <<>>)>>)>>),
     \* two directories that each hold a directory called "A.img"
     Built(N_Root, "file", <<Built(N_D, "dir", <<Built(N_A, "dir", <<>>)>>),
                             Built(N_n, "dir", <<Built(N_A, "dir", <<>>)>>)>>)}

MapleVersions == {"BMS", "GMS"}

GameVersions == {83, 84}

\* options.wzKey: the editor keeps one WzMutableKey for each variant and
\* has read strings with it before it saves.
EditorKeys ==
    [ver \in MapleVersions |-> ensureKeySize(generateWzKey(getIvByMapleVersion(ver)), 1)]

InitArchive ==
    /\ doc \in BuiltTrees
    /\ src = <<>> /\ out = <<>> /\ back = <<>> /\ opens = 0
    /\ IdleKey
    /\ IdleCodec
    /\ IdleLater

\* Save: repackWzFile on the tree, with or without the source archive as
\* originalBuffer.
Repack(mapleVersion, gameVersion, withOriginal) ==
    /\ withOriginal => src # <<>>
    /\ \E res \in {repackWzFile(doc, mapleVersion, gameVersion, EditorKeys[mapleVersion],
                                 IF withOriginal THEN <<src[1].bytes>> ELSE <<>>)} :
           /\ out' = <<[res |-> res,
                        original |-> IF withOriginal THEN <<src[1].bytes>> ELSE <<>>,
                        fileName |-> doc.name]>>
           /\ doc' = dropImageData(res.tree)
    /\ back' = <<>>
    /\ UNCHANGED <<src, opens, keyVars, codecVars, laterVars>>

OutputArchive ==
    [bytes |-> out[1].res.bytes, fileName |-> out[1].fileName,
     mapleVersion |-> out[1].res.mapleVersion, gameVersion |-> out[1].res.gameVersion]

\* The output is parsed again and every image of it is loaded.
Reparse ==
    /\ out # <<>> /\ ~out[1].res.err /\ back = <<>>
    /\ back' = <<parseArchiveFully(OutputArchive)>>
    /\ UNCHANGED <<doc, src, out, opens, keyVars, codecVars, laterVars>>

\* Open: parseWzFile with the variant and the version given; the tree that
\* was edited before is dropped.
OpenArchive(a) ==
    /\ opens < MaxOpens
    /\ \E p \in {parseWzFile(a.bytes, a.fileName, a.mapleVersion, a.gameVersion)} :
           /\ ~p.err
           /\ doc' = p.root
    /\ src' = <<a>>
    /\ out' = <<>> /\ back' = <<>>
    /\ opens' = opens + 1
    /\ UNCHANGED <<keyVars, codecVars, laterVars>>

\* The content of one image is demanded.
LoadImage(path) ==
    /\ src # <<>>
    /\ NodeAt(doc, path).type = "image"
    /\ \E node \in {parse_image(NodeAt(doc, path), src[1].bytes, src[1].mapleVersion)} :
           /\ node # NodeAt(doc, path)
           /\ doc' = ReplaceAt(doc, path, node)
    /\ out' = <<>> /\ back' = <<>>
    /\ UNCHANGED <<src, opens, keyVars, codecVars, laterVars>>

\* An edit marks an image or a canvas as modified.
SetModified(path) ==
    /\ NodeAt(doc, path).type \in {"image", "canvas"}
    /\ ~NodeAt(doc, path).modified
    /\ doc' = ReplaceAt(doc, path, [NodeAt(doc, path) EXCEPT !.modified = TRUE])
    /\ out' = <<>> /\ back' = <<>>
    /\ UNCHANGED <<src, opens, keyVars, codecVars, laterVars>>

\* The archives at hand: the one of another tool and the one just saved.
Openable ==
    {FixtureArchive} \cup (IF out # <<>> /\ ~out[1].res.err THEN {OutputArchive} ELSE {})

NextArchive ==
    \/ \E mv \in MapleVersions, gv \in GameVersions, wo \in BOOLEAN : Repack(mv, gv, wo)
    \/ Reparse
    \/ \E a \in Openable : OpenArchive(a)
    \/ \E path \in PathsOf(doc) : LoadImage(path)
    \/ \E path \in PathsOf(doc) : SetModified(path)

SpecArchive == InitArchive /\ [][NextArchive]_vars

-----------------------------------------------------------------------------
(* What the archive claims speak of.                                       *)

\* The paths of the image nodes of a tree.
ImagePaths(tree) == {p \in PathsOf(tree) : NodeAt(tree, p).type = "image"}

RECURSIVE NamesAlong(_, _)
\* The names of the nodes a path passes below the root.
NamesAlong(node, path) ==
    IF path = <<>> THEN <<>>
    ELSE <<node.children[Head(path)].name>>
             \o NamesAlong(node.children[Head(path)], Tail(path))

\* The data slice of every image of a tree, as its directory entry locates
\* it in the bytes of the archive.
ImageSlices(tree, bytes) ==
    {[names |-> NamesAlong(tree, p),
      data  |-> sliceOf(bytes, NodeAt(tree, p).bsrc[1].offset, NodeAt(tree, p).bsrc[1].length)] :
        p \in {q \in ImagePaths(tree) : NodeAt(tree, q).bsrc # <<>>}}

\* The images a repack copied from the original buffer.
CopiedImages(tree) ==
    {p \in ImagePaths(tree) : NodeAt(tree, p).img # <<>> /\ NodeAt(tree, p).img[1].copied}

\* The nodes marked as modified.
ModifiedPaths(tree) == {p \in PathsOf(tree) : NodeAt(tree, p).modified}

\* p is a prefix of q.
IsPrefix(p, q) == Len(p) <= Len(q) /\ SubSeq(q, 1, Len(p)) = p

\* How a repack ended: the only exception repackWzFile can raise is the
\* RangeError of the view over the original buffer.
ErrorOf(res) == IF res.err THEN "RangeError" ELSE "none"

\* The layout parameters the images of the tree were read under differ from
\* those of the repack.
LayoutDiffers(tree, res) ==
    \E p \in ImagePaths(tree) :
        /\ NodeAt(tree, p).bsrc # <<>>
        /\ \/ NodeAt(tree, p).bsrc[1].hash # res.hash
           \/ NodeAt(tree, p).bsrc[1].headerFStart # res.fStart

RECURSIVE DirShape(_)
\* The directory level of a tree: names and types of files, directories and
\* images, children in their order.
DirShape(node) ==
    [name |-> node.name, type |-> node.type,
     children |-> IF node.type \in {"file", "dir"}
                  THEN Tup([i \in 1..Len(node.children) |-> DirShape(node.children[i])])
                  ELSE <<>>]

\* C1: a tree built in memory (one image "Test.img" holding int n = 42, or
\* any tree of directories and images with primitive properties) that is
\* repacked at patch version 83 and parsed again, every image loaded, comes
\* back as the tree that was written: names, types, child order and values.
C1_BuiltTreeRoundTrip ==
    (src = <<>> /\ back # <<>> /\ out[1].res.gameVersion = 83)
        => (~back[1].err /\ ShapeOf(back[1].root) = ShapeOf(doc))

\* C2: after a repack with the original archive bytes and no image
\* modified, the slice each directory entry of the re-parsed output names
\* for an image is byte for byte the image's slice in the original archive.
C2_FastPathSlicesEqual ==
    (src # <<>> /\ back # <<>> /\ out[1].original # <<>>
        /\ \A p \in ImagePaths(doc) : ~NodeAt(doc, p).modified)
        => (/\ ~back[1].err
            /\ ImageSlices(back[1].root, out[1].res.bytes) = ImageSlices(doc, src[1].bytes))

\* C3: a repack given original bytes whose data-section start or version
\* hash differ from those of the archive it emits copies no image from the
\* original (every image is serialized from the tree) or fails with
\* MismatchedLayoutParameters.
C3_LayoutChangeReserializesOrFails ==
    (out # <<>> /\ out[1].original # <<>> /\ LayoutDiffers(doc, out[1].res))
        => (\/ ErrorOf(out[1].res) = "MismatchedLayoutParameters"
            \/ (~out[1].res.err /\ CopiedImages(out[1].res.tree) = {}))

\* C4: with one canvas of a parsed archive marked as modified and nothing
\* else, a repack with the archive as the original buffer serializes the
\* image that holds the canvas from the tree and copies the other images,
\* or fails with CanvasPayloadMissing.
C4_ModifiedCanvasReserializesOrFails ==
    (/\ src # <<>> /\ out # <<>> /\ out[1].original # <<>>
     /\ \E c \in PathsOf(doc) :
            NodeAt(doc, c).type = "canvas" /\ ModifiedPaths(doc) = {c})
        => (\/ ErrorOf(out[1].res) = "CanvasPayloadMissing"
            \/ /\ ~out[1].res.err
               /\ \A p \in ImagePaths(out[1].res.tree) :
                      (p \in CopiedImages(out[1].res.tree))
                          <=> ~\E c \in ModifiedPaths(doc) : IsPrefix(p, c))

\* C5: for every directory of a repacked tree the entry-block size of the
\* layout pass is the number of bytes the emit pass writes for the block,
\* and the offset assigned to the directory is the position its block is
\* written at.
C5_LayoutMatchesEmit ==
    (out # <<>> /\ ~out[1].res.err)
        => \A i \in 1..Len(out[1].res.log) :
               out[1].res.log[i].kind = "dir"
                   => /\ NodeAt(out[1].res.tree, out[1].res.log[i].path).wzOffsetSize
                            = out[1].res.log[i].len
                      /\ NodeAt(out[1].res.tree, out[1].res.log[i].path).wzOffset
                            = out[1].res.log[i].at

\* C6: the re-parse of a repacked archive holds the children of every file
\* and directory node in the order of the tree that was written.
C6_ChildOrderKept ==
    (back # <<>> /\ ~back[1].err) => DirShape(back[1].root) = DirShape(doc)

-----------------------------------------------------------------------------
(* String interning specification: an image holding string properties is   *)
(* edited, serialized (serializeImageBinary) and the string blocks of the  *)
(* output are read back (readWzStringBlock) by a reader over the image's   *)
(* slice, as the worker builds it for an image at some offset of the       *)
(* archive.                                                                *)

\* String properties of the image.
MaxInternProps == 3

S_z == <<122>>                                                          \* "z"
S_LongName == <<76, 111, 110, 103, 78, 97, 109, 101>>                   \* "LongName"
S_abcd == <<97, 98, 99, 100>>                                           \* "abcd"
S_LongString ==                                          \* "LongStringOverFourChars"
    <<76, 111, 110, 103, 83, 116, 114, 105, 110, 103, 79, 118, 101, 114, 70, 111, 117,
      114, 67, 104, 97, 114, 115>>
S_Accent == <<233, 116, 111, 105, 108, 101>>                            \* e-acute "toile"

InternNames == {S_z, S_LongName}

InternValues == {S_abcd, S_LongString, S_Accent, S_LongName}

\* Offsets of an image in its archive.
InternBases == {0, 107}

StringNode(name, value) == [WzNode(name, "string") EXCEPT !.str = value]

InternImage(kids) == Built(N_Test, "image", kids)

\* The writer of serializeImageBinary where it enters writePropertyList.
InternPrologue(wzKey) ==
    writeUInt16(writeWzString(writeByte(NewWriter(wzKey, 0, 0), WZ_IMG_HEADER_WITHOUT_OFFSET),
                              S_Property), 0)

\* The writer of writePropertyList where it is about to write the name of
\* child i.
InternBeforeName(kids, i, wzKey) ==
    writeProperties(writeCompressedInt(writeUInt16(InternPrologue(wzKey), 0), Len(kids)),
                    SubSeq(kids, 1, i - 1), 1)

\* The calls of writeStringValue that serializeImageBinary makes for the
\* properties kids, in their order: the string and the position of the
\* block it writes.
InternOccurrences(kids, wzKey) ==
    Tup([k \in 1..(2 * Len(kids)) |->
            IF k % 2 = 1
            THEN [str |-> kids[(k + 1) \div 2].name,
                  at  |-> WriterPos(InternBeforeName(kids, (k + 1) \div 2, wzKey))]
            ELSE [str |-> kids[k \div 2].str,
                  at  |-> WriterPos(writeStringValue(InternBeforeName(kids, k \div 2, wzKey),
                                                     kids[k \div 2].name, 0, 1)) + 1]])

InitIntern ==
    /\ sKids = <<>> /\ sImg = <<>> /\ sBack = <<>>
    /\ IdleExceptIntern

\* The editor adds a string property to the image.
AddString(name, value) ==
    /\ Len(sKids) < MaxInternProps
    /\ sKids' = Append(sKids, StringNode(name, value))
    /\ sImg' = <<>> /\ sBack' = <<>>
    /\ UNCHANGED exceptIntern

\* serializeImageBinary of the image, with the key of a variant.
SerializeImage(mapleVersion) ==
    /\ sKids # <<>> /\ sImg = <<>>
    /\ sImg' = <<[data |-> serializeImageBinary(InternImage(sKids), EditorKeys[mapleVersion],
                                                <<>>).data,
                  mapleVersion |-> mapleVersion,
                  occ |-> InternOccurrences(sKids, EditorKeys[mapleVersion])]>>
    /\ UNCHANGED <<sKids, sBack, exceptIntern>>

\* readWzStringBlock(offset) at every string block of the image, by the
\* reader the worker makes for an image at offset base.
ReadBlocks(base) ==
    /\ sImg # <<>> /\ sBack = <<>>
    /\ \E rd \in {NewReader(sImg[1].data,
                             generateWzKey(getIvByMapleVersion(sImg[1].mapleVersion)), base)} :
           sBack' = <<[base |-> base,
                       got |-> Tup([k \in 1..Len(sImg[1].occ) |->
                                      readWzStringBlock(Seek(rd, sImg[1].occ[k].at), base)])]>>
    /\ UNCHANGED <<sKids, sImg, exceptIntern>>

NextIntern ==
    \/ \E name \in InternNames, value \in InternValues : AddString(name, value)
    \/ \E mv \in MapleVersions : SerializeImage(mv)
    \/ \E base \in InternBases : ReadBlocks(base)

SpecIntern == InitIntern /\ [][NextIntern]_vars

\* The block at occurrence k of the serialized image is in the inline form.
InternInline(k) == sImg[1].data[sImg[1].occ[k].at + 1] = 0

\* Occurrence k is the first one of its string.
InternFirst(k) == \A j \in 1..(k - 1) : sImg[1].occ[j].str # sImg[1].occ[k].str

\* C11: in a serialized image a string of more than 4 characters is written
\* inline at its first occurrence only, every later occurrence is written
\* in the offset form, and readWzStringBlock with the image's base offset
\* returns the string at every occurrence.
InternedOnceAndReadBack ==
    /\ sImg # <<>> =>
          \A k \in 1..Len(sImg[1].occ) :
              Len(sImg[1].occ[k].str) > 4 =>
                  /\ InternInline(k) <=> InternFirst(k)
                  /\ ~InternInline(k) => sImg[1].data[sImg[1].occ[k].at + 1] = 1
    /\ sBack # <<>> =>
          \A k \in 1..Len(sImg[1].occ) :
              /\ ~sBack[1].got[k].r.err
              /\ sBack[1].got[k].v = sImg[1].occ[k].str

\* Two string properties "z" with the value "LongStringOverFourChars": the
\* second value went out in the offset form and was read back at base 107.
InternScenarioRead ==
    /\ sKids = <<StringNode(S_z, S_LongString), StringNode(S_z, S_LongString)>>
    /\ sBack # <<>> /\ sBack[1].base = 107
    /\ InternInline(2) /\ ~InternInline(4)
    /\ sBack[1].got[4].v = S_LongString

-----------------------------------------------------------------------------
(* wz-file.js: detection of the patch version and of the variant, that is  *)
(* parseWzFile with mapleVersion = 'AUTO' and gameVersion = -1.            *)

\* candidates.push(83) and the loop for (v = 1; v <= 500; v++).
PopularVersion == 83
LastCandidate == 500

\* The candidates in the order the loop tries them.
versionCandidates(is64Bit) ==
    (IF is64Bit THEN Tup([i \in 1..10 |-> WZ_VERSION_HEADER_64BIT_START + i - 1]) ELSE <<>>)
    \o <<PopularVersion>>
    \o Tup([i \in 1..(LastCandidate - 1) |-> IF i < PopularVersion THEN i ELSE i + 1])

\* The candidates the loop does not skip with h === 0.
hashedCandidates(wzVersionHeader, is64Bit) ==
    SelectSeq(versionCandidates(is64Bit),
              LAMBDA v : checkAndGetVersionHash(wzVersionHeader, v) # U32FromNat(0))

\* The name test of tryParseDirectory: valid >= fname.length * 0.5.
recognizableName(fname) ==
    Len(fname) > 0 =>
        2 * Cardinality({c \in 1..Len(fname) : fname[c] >= 32 /\ fname[c] <= 126}) >= Len(fname)

\* An entry of type 2, 3 or 4 from its name nm = [r, v] on.  st is
\* [r, ok, v]: r.err when a read threw, ok = FALSE when the walk returned
\* null, v the entries so far.
tryParseEntry(st, type, nm, fStart) ==
    LET rememberPos == IF type.v = 2 THEN readInt32(type.r).r.pos ELSE nm.r.pos
        fsize    == readCompressedInt(Seek(nm.r, rememberPos))
        checksum == readCompressedInt(fsize.r)
        off      == readWzOffset(checksum.r)
    IN  IF nm.r.err \/ off.r.err THEN [r |-> Failed(off.r), ok |-> st.ok, v |-> st.v]
        ELSE IF ~recognizableName(nm.v) THEN [r |-> off.r, ok |-> FALSE, v |-> st.v]
        ELSE [r |-> off.r, ok |-> TRUE,
              v |-> Append(st.v, [type |-> type.v, fname |-> nm.v, fsize |-> fsize.v,
                                  offset |-> OffsetOf(off.v)])]

RECURSIVE tryParseEntries(_, _, _, _)
tryParseEntries(st, fStart, i, entryCount) ==
    IF i >= entryCount \/ st.r.err \/ ~st.ok THEN st
    ELSE LET type == readByte(st.r)
         IN  IF type.r.err THEN [r |-> type.r, ok |-> st.ok, v |-> st.v]
             ELSE IF type.v = 1
             THEN LET o == readWzOffset(readInt16(readInt32(type.r).r).r)
                  IN  tryParseEntries([r |-> o.r, ok |-> st.ok, v |-> st.v], fStart,
                                      i + 1, entryCount)
             ELSE IF type.v \notin {2, 3, 4} THEN [r |-> type.r, ok |-> FALSE, v |-> st.v]
             ELSE tryParseEntries(tryParseEntry(st, type, readEntryName(type, fStart), fStart),
                                  fStart, i + 1, entryCount)

\* return entries.length > 0 ? entries : null
nullIfEmpty(st) == [r |-> st.r, ok |-> st.ok /\ st.v # <<>>, v |-> st.v]

\* tryParseDirectory(reader, fStart): [r, ok, v], ok = FALSE for null.
tryParseDirectory(r, fStart) ==
    IF Len(r.bytes) - r.pos <= 0 THEN [r |-> r, ok |-> FALSE, v |-> <<>>]
    ELSE LET entryCount == readCompressedInt(r)
         IN  IF entryCount.r.err THEN [r |-> entryCount.r, ok |-> TRUE, v |-> <<>>]
             ELSE IF entryCount.v < 0 \/ entryCount.v > 100000
             THEN [r |-> entryCount.r, ok |-> FALSE, v |-> <<>>]
             ELSE nullIfEmpty(tryParseEntries([r |-> entryCount.r, ok |-> TRUE, v |-> <<>>],
                                              fStart, 0, entryCount.v))

\* findFirstImage(entries): <<>> for null, <<entry>> otherwise.
findFirstImage(entries) ==
    LET imgs == {k \in 1..Len(entries) :
                    entries[k].type = 4 \/ endsWith(entries[k].fname, S_DotImg)}
    IN  IF imgs = {} THEN <<>>
        ELSE <<entries[CHOOSE k \in imgs : \A j \in imgs : k <= j]>>

\* reader.bytes[offset]: -1 for undefined.
byteAtOffset(bytes, offset) ==
    IF offset >= 0 /\ offset < Len(bytes) THEN bytes[offset + 1] ELSE -1

\* The test on the result t of tryParseDirectory: the candidate is taken.
candidateAccepted(t, firstImage) ==
    /\ ~t.r.err
    /\ t.ok
    /\ \/ firstImage = <<>>
       \/ byteAtOffset(t.r.bytes, firstImage[1].offset)
            \in {WZ_IMG_HEADER_WITHOUT_OFFSET, WZ_IMG_HEADER_WITH_OFFSET}

\* What the loop body makes of the result t of tryParseDirectory: [r, hit].
candidateOutcome(t) == [r |-> t.r, hit |-> candidateAccepted(t, findFirstImage(t.v))]

\* The body of the inner loop for a candidate of hash h: [r, hit].
tryCandidate(r, h, fStart, is64Bit) ==
    candidateOutcome(
        tryParseDirectory([r EXCEPT !.hash = h, !.err = FALSE,
                                    !.pos = fStart + (IF is64Bit THEN 0 ELSE 2)],
                          fStart))

\* The inner loop from candidate i on, on the reader r of one variant:
\* [found, version, r].
RECURSIVE detectVersion(_, _, _, _, _, _)
detectVersion(r, cands, i, wzVersionHeader, fStart, is64Bit) ==
    IF i > Len(cands) THEN [found |-> FALSE, version |-> -1, r |-> r]
    ELSE LET c == tryCandidate(r, checkAndGetVersionHash(wzVersionHeader, cands[i]),
                               fStart, is64Bit)
         IN  IF c.hit THEN [found |-> TRUE, version |-> cands[i], r |-> c.r]
             ELSE detectVersion(c.r, cands, i + 1, wzVersionHeader, fStart, is64Bit)

\* The outer loop from variant j of encryptionTypes on:
\* [found, version, mapleVersion, r].
RECURSIVE detectVariant(_, _, _, _, _, _, _)
detectVariant(buffer, encryptionTypes, j, cands, wzVersionHeader, fStart, is64Bit) ==
    IF j > Len(encryptionTypes)
    THEN [found |-> FALSE, version |-> -1, mapleVersion |-> "", r |-> NewReader(buffer, <<>>, 0)]
    ELSE LET d == detectVersion(
                      [NewReader(buffer, generateWzKey(getIvByMapleVersion(encryptionTypes[j])), 0)
                          EXCEPT !.fStart = fStart],
                      cands, 1, wzVersionHeader, fStart, is64Bit)
         IN  IF d.found
             THEN [found |-> TRUE, version |-> d.version,
                   mapleVersion |-> encryptionTypes[j], r |-> d.r]
             ELSE detectVariant(buffer, encryptionTypes, j + 1, cands, wzVersionHeader,
                                fStart, is64Bit)

\* parseWzFile from the detection d on: the directory tree is parsed by
\* the reader that detected the version.
parseDetected(d, root, bad, wzVersionHeader, fStart, is64Bit) ==
    IF ~d.found THEN bad
    ELSE parsedFile(
             parseDirectory([d.r EXCEPT !.hash = checkAndGetVersionHash(wzVersionHeader, d.version),
                                        !.pos = fStart + (IF is64Bit THEN 0 ELSE 2)],
                            root, fStart, checkAndGetVersionHash(wzVersionHeader, d.version), 0),
             bad, d.version, is64Bit, d.mapleVersion,
             checkAndGetVersionHash(wzVersionHeader, d.version), fStart)

\* parseWzFile(buffer, fileName, 'AUTO', -1): [err, root, version, is64Bit,
\* mapleVersion, hash, fStart]; err when the parser throws, the failed
\* detection included.
parseWzFileAuto(buffer, fileName) ==
    LET t0     == NewReader(buffer, generateWzKey(getIvByMapleVersion("BMS")), 0)
        ident  == readBytes(t0, 4)
        fSize  == readInt64(ident.r)
        fStart == readUInt32(fSize.r)
        t1     == readNullTerminatedString(fStart.r)
        c64    == check64BitClient([t1 EXCEPT !.fStart = fStart.v],
                                   IF fSize.v < 0 THEN 2147483647 ELSE fSize.v, fStart.v)
        vh     == IF c64.v THEN [r |-> c64.r, v |-> WZ_VERSION_HEADER_64BIT_START]
                  ELSE readUInt16(Seek(c64.r, fStart.v))
        root   == [WzNode(fileName, "file") EXCEPT !.parsed = TRUE]
        bad    == [err |-> TRUE, root |-> root, version |-> -1, is64Bit |-> FALSE,
                   mapleVersion |-> "", hash |-> U32FromNat(0), fStart |-> 0]
    IN  IF ident.r.err \/ ident.v # S_PKG1 THEN bad
        ELSE IF fStart.r.err \/ c64.r.err \/ vh.r.err THEN bad
        ELSE parseDetected(
                 detectVariant(buffer, <<"GMS", "EMS", "BMS">>, 1,
                               hashedCandidates(vh.v, c64.v), vh.v, fStart.v, c64.v),
                 root, bad, vh.v, fStart.v, c64.v)

-----------------------------------------------------------------------------
(* Detection specification: a tree built in memory is saved by            *)
(* repackWzFile and the archive is opened with no variant and no version   *)
(* given.                                                                  *)

N_Dir == <<68, 105, 114>>                             \* "Dir"

DetectTrees ==
    BuiltTrees \cup
    {\* two images
     Built(N_Root, "file", <<Built(N_Test, "image", <<IntNode(N_n, 42)>>),
                             Built(N_A, "image", <<>>)>>),
     \* directories only, the names shorter than five characters
     Built(N_Root, "file", <<Built(N_D, "dir", <<Built(N_Dir, "dir", <<>>)>>),
                             Built(N_Dir, "dir", <<>>)>>)}

\* Patch 95 has the version header of patch 16, which the loop tries first.
DetectVersions == GameVersions \cup {95}

InitDetect ==
    /\ dDoc \in DetectTrees
    /\ dOut = <<>> /\ dGot = <<>>
    /\ IdleExceptDetect

\* Save: repackWzFile on the tree, without originalBuffer.
Emit(mapleVersion, gameVersion) ==
    /\ \E res \in {repackWzFile(dDoc, mapleVersion, gameVersion, EditorKeys[mapleVersion],
                                 <<>>)} :
           /\ dOut' = <<[bytes |-> res.bytes, mapleVersion |-> mapleVersion,
                         gameVersion |-> gameVersion, fStart |-> res.fStart]>>
           /\ dDoc' = dropImageData(res.tree)
    /\ dGot' = <<>>
    /\ UNCHANGED exceptDetect

\* Open: parseWzFile(buffer, fileName, 'AUTO', -1) on the emitted archive.
Detect ==
    /\ dOut # <<>> /\ dGot = <<>>
    /\ \E res \in {parseWzFileAuto(dOut[1].bytes, dDoc.name)} :
           dGot' = <<[err |-> res.err, version |-> res.version,
                      mapleVersion |-> res.mapleVersion, root |-> ShapeOf(res.root)]>>
    /\ UNCHANGED <<dDoc, dOut, exceptDetect>>

NextDetect ==
    \/ \E mv \in MapleVersions, gv \in DetectVersions : Emit(mv, gv)
    \/ Detect

SpecDetect == InitDetect /\ [][NextDetect]_vars

\* The version header stored in the emitted archive: the uint16 at the
\* data-section start.
EmittedHeader == dOut[1].bytes[dOut[1].fStart + 1] + 256 * dOut[1].bytes[dOut[1].fStart + 2]

\* The reader of a directory walk for the variant enc and the hash h.
CandidateReader(enc, h) ==
    [NewReader(dOut[1].bytes, generateWzKey(getIvByMapleVersion(enc)), 0)
        EXCEPT !.fStart = dOut[1].fStart, !.hash = h, !.pos = dOut[1].fStart + 2]

\* The walk of the root directory as the directory layout defines it: the
\* entry count, then the entries, without the subdirectories.
RootWalk(rd) ==
    LET n == readCompressedInt(rd)
    IN  [count |-> n,
         st |-> parseDirectoryEntries([r |-> n.r, v |-> <<>>], rd.fStart, rd.hash, 0, n.v)]

\* The walk ended without error and every name passes the name test.
CleanWalk(w) ==
    /\ ~w.count.r.err /\ w.count.v >= 0 /\ w.count.v <= 100000
    /\ ~w.st.r.err
    /\ \A k \in 1..Len(w.st.v) : recognizableName(w.st.v[k].name)

\* The entries of the walk that are images.
WalkImages(w) ==
    {k \in 1..Len(w.st.v) : w.st.v[k].type = "image" \/ endsWith(w.st.v[k].name, S_DotImg)}

\* The first image entry of the walk points at an image header byte.
FirstImagePointsAtHeader(w) ==
    LET k == CHOOSE i \in WalkImages(w) : \A j \in WalkImages(w) : i <= j
    IN  byteAtOffset(dOut[1].bytes, w.st.v[k].binaryOffset)
          \in {WZ_IMG_HEADER_WITHOUT_OFFSET, WZ_IMG_HEADER_WITH_OFFSET}

\* C12: every archive that repackWzFile emitted at patch version 83 is
\* opened by parseWzFile without variant and version as patch version 83.
C12_EmittedAt83DetectedAs83 ==
    (dOut # <<>> /\ dOut[1].gameVersion = 83 /\ dGot # <<>>)
        => (~dGot[1].err /\ dGot[1].version = 83)

\* C13: during detection a candidate (variant, version) whose root
\* directory walk ends without error is accepted when its first image
\* entry points at a byte 0x1B or 0x73 or when the directory holds no image
\* entry, a directory of zero entries included.
C13_CleanWalkAccepted ==
    dOut # <<>> =>
        \A enc \in {"GMS", "EMS", "BMS"} :
            LET h  == checkAndGetVersionHash(EmittedHeader, dOut[1].gameVersion)
                rd == CandidateReader(enc, h)
                w  == RootWalk(rd)
            IN  (CleanWalk(w) /\ (WalkImages(w) = {} \/ FirstImagePointsAtHeader(w)))
                    => tryCandidate(rd, h, dOut[1].fStart, FALSE).hit

\* C14: an archive emitted at patch version 83 carries the version header
\* 0xAC (172), the value (~(b3 ^ b2 ^ b1 ^ b0)) & 0xFF of the version hash
\* 1876 of "83", and checkAndGetVersionHash accepts it for version 83.
C14_VersionHeaderOf83 ==
    (dOut # <<>> /\ dOut[1].gameVersion = 83) =>
        /\ EmittedHeader = 172
        /\ versionHashOf(83) = U32FromNat(1876)
        /\ 172 = (255 - Xor(Xor(0, 0), Xor(7, 84)))
        /\ checkAndGetVersionHash(EmittedHeader, 83) = U32FromNat(1876)

\* C14 as stated: the version header of an archive emitted at patch
\* version 83 is 0xCD (205).
C14_VersionHeaderIsCD ==
    (dOut # <<>> /\ dOut[1].gameVersion = 83) => EmittedHeader = 205

\* An archive was emitted at patch version 83 and its header was read.
C14_EmittedAt83 ==
    /\ dOut # <<>> /\ dOut[1].gameVersion = 83
    /\ Len(dOut[1].bytes) >= dOut[1].fStart + 2
    /\ EmittedHeader = 172

-----------------------------------------------------------------------------
(* wz-png.js: decodeBGRA4444 (pixel format 1).                             *)

\* raw[i] & 0x0F and (raw[i] >> 4) & 0x0F; raw[i] is undefined past the
\* end of raw and both give 0 then.
rawByte(raw, i) == IF i < Len(raw) THEN raw[i + 1] ELSE 0
lowNibble(v) == v % 16
highNibble(v) == (v \div 16) % 16

\* n | (n << 4) for a nibble n.
expandNibble(n) == n + 16 * n

\* The nibbles of the word that starts at i in the order of the payload:
\* b, g, r, a.
pixelRGBAInPayloadOrder(raw, i) ==
    <<expandNibble(lowNibble(rawByte(raw, i))),
      expandNibble(highNibble(rawByte(raw, i))),
      expandNibble(lowNibble(rawByte(raw, i + 1))),
      expandNibble(highNibble(rawByte(raw, i + 1)))>>

\* The four bytes out[j] .. out[j + 3] of the pixel whose word starts at i.
pixelRGBA(raw, i) ==
    <<expandNibble(lowNibble(rawByte(raw, i + 1))),
      expandNibble(highNibble(rawByte(raw, i))),
      expandNibble(lowNibble(rawByte(raw, i))),
      expandNibble(highNibble(rawByte(raw, i + 1)))>>

\* decodeBGRA4444(raw, width, height): out, width * height * 4 bytes.
decodeBGRA4444(raw, width, height) ==
    Tup([j \in 1..(width * height * 4) |->
           pixelRGBA(raw, 2 * ((j - 1) \div 4))[((j - 1) % 4) + 1]])

-----------------------------------------------------------------------------
(* Pixel specification: a payload of format 1 is decoded.                  *)

\* The canvases have up to MaxSide pixels a side.
MaxSide == 2

PixelBytes == {0, 15, 240, 255, 18, 165, 128, 7}

\* The payload of the example: 0F 0F F0 F0 00 FF FF 00.
ExamplePayload == <<15, 15, 240, 240, 0, 255, 255, 0>>

\* Payloads of n bytes: the example's bytes repeated, from each of its bytes on.
PatternPayloads(n) ==
    {Tup([i \in 1..n |-> ExamplePayload[((i - 1 + k) % 8) + 1]]) : k \in 0..7}

\* A canvas of one pixel takes every word over PixelBytes and the empty
\* payload; larger ones take the pattern payloads.
PixelInputs ==
    {[raw |-> <<lo, hi>>, width |-> 1, height |-> 1] : lo \in PixelBytes, hi \in PixelBytes}
    \cup {[raw |-> <<>>, width |-> 1, height |-> 1]}
    \cup UNION {{[raw |-> raw, width |-> d[1], height |-> d[2]] :
                     raw \in PatternPayloads(2 * d[1] * d[2])} :
                 d \in ((1..MaxSide) \X (1..MaxSide)) \ {<<1, 1>>}}

InitPixel ==
    /\ pxIn \in PixelInputs
    /\ pxOut = <<>>
    /\ IdleExceptPixel

\* The canvas is decoded.
Decode ==
    /\ pxOut = <<>>
    /\ pxOut' = <<decodeBGRA4444(pxIn.raw, pxIn.width, pxIn.height)>>
    /\ UNCHANGED <<pxIn, exceptPixel>>

\* The next canvas is taken.
NextCanvas(input) ==
    /\ pxOut # <<>>
    /\ pxIn' = input
    /\ pxOut' = <<>>
    /\ UNCHANGED exceptPixel

NextPixel ==
    \/ Decode
    \/ \E input \in PixelInputs : NextCanvas(input)

SpecPixel == InitPixel /\ [][NextPixel]_vars

ExampleCanvas == [raw |-> ExamplePayload, width |-> 2, height |-> 2]

\* C15: decodeBGRA4444 takes each 16-bit little-endian word as the nibbles
\* b, g, r, a (lowest first) and expands a nibble n to n | (n << 4) = 17 n;
\* the 2x2 payload 0F 0F F0 F0 00 FF FF 00 decodes to the RGBA pixels
\* (255,0,255,0), (0,255,0,255), (255,0,0,255), (0,255,255,0).
C15_NibblesExpanded ==
    pxOut # <<>> =>
        /\ Len(pxOut[1]) = 4 * pxIn.width * pxIn.height
        /\ \A k \in 0..(pxIn.width * pxIn.height - 1) :
               LET lo == IF 2 * k < Len(pxIn.raw) THEN pxIn.raw[2 * k + 1] ELSE 0
                   hi == IF 2 * k + 1 < Len(pxIn.raw) THEN pxIn.raw[2 * k + 2] ELSE 0
               IN  /\ pxOut[1][4 * k + 1] = 17 * (hi % 16)
                   /\ pxOut[1][4 * k + 2] = 17 * (lo \div 16)
                   /\ pxOut[1][4 * k + 3] = 17 * (lo % 16)
                   /\ pxOut[1][4 * k + 4] = 17 * (hi \div 16)
        /\ pxIn = ExampleCanvas =>
               pxOut[1] = <<255, 0, 255, 0,  0, 255, 0, 255,  255, 0, 0, 255,  0, 255, 255, 0>>

\* C15 as stated: the example decodes to (255,255,255,0), (0,0,0,255),
\* (255,0,0,255), (0,255,255,0).
C15_ExampleAsStated ==
    (pxOut # <<>> /\ pxIn = ExampleCanvas) =>
        pxOut[1] = <<255, 255, 255, 0,  0, 0, 0, 255,  255, 0, 0, 255,  0, 255, 255, 0>>

\* The example canvas was decoded.
C15_ExampleDecoded ==
    /\ pxIn = ExampleCanvas
    /\ pxOut # <<>>
    /\ Len(pxOut[1]) = 16

-----------------------------------------------------------------------------
(* wz-node.js: WzNode.addChild / removeChild on nodes that refer to each    *)
(* other, and the undo stack (UndoStack, addAction, removeAction).          *)

\* The nodes that take children and the nodes that are added to them.
ParentNodes == {1, 2}
ChildNodes == {3, 4}
TreeNodes == ParentNodes \cup ChildNodes

\* child.parent = null.
NoParent == 0

\* children.indexOf(child): the index (from 0) of the first occurrence, or -1.
indexOf(children, child) ==
    IF \E i \in 1..Len(children) : children[i] = child
    THEN (CHOOSE i \in 1..Len(children) :
              /\ children[i] = child
              /\ \A j \in 1..(i - 1) : children[j] # child) - 1
    ELSE -1

\* children.splice(idx, 1).
spliceOut(children, idx) ==
    SubSeq(children, 1, idx) \o SubSeq(children, idx + 2, Len(children))

\* children.splice(index, 0, child): an index past the end appends.
spliceIn(children, index, child) ==
    IF index >= Len(children) THEN Append(children, child)
    ELSE SubSeq(children, 1, index) \o <<child>> \o SubSeq(children, index + 1, Len(children))

\* A heap is [parent, kids]: the parent reference and the child sequence of
\* every node.
\* parent.addChild(child).
nodeAddChild(heap, parent, child) ==
    [parent |-> [heap.parent EXCEPT ![child] = parent],
     kids   |-> [heap.kids EXCEPT ![parent] = Append(@, child)]]

\* parent.removeChild(child).
nodeRemoveChild(heap, parent, child) ==
    LET idx == indexOf(heap.kids[parent], child)
    IN  IF idx # -1
        THEN [parent |-> [heap.parent EXCEPT ![child] = NoParent],
              kids   |-> [heap.kids EXCEPT ![parent] = spliceOut(@, idx)]]
        ELSE heap

\* An action of the undo stack is [kind, parent, child, index].
\* addAction(parent, child).redo() / .undo() and removeAction(parent, child,
\* index).redo() / .undo().
actionRedo(heap, action) ==
    IF action.kind = "add"
    THEN nodeAddChild(heap, action.parent, action.child)
    ELSE nodeRemoveChild(heap, action.parent, action.child)

actionUndo(heap, action) ==
    IF action.kind = "add"
    THEN nodeRemoveChild(heap, action.parent, action.child)
    ELSE [parent |-> [heap.parent EXCEPT ![action.child] = action.parent],
          kids   |-> [heap.kids EXCEPT
                          ![action.parent] = spliceIn(@, action.index, action.child)]]

\* UndoStack.push that advances the pointer also when the stack is shifted.
stackPushAdvancing(us, action, maxSize) ==
    LET kept == Append(SubSeq(us.stack, 1, us.pointer + 1), action)
    IN  IF Len(kept) > maxSize
        THEN [stack |-> Tail(kept), pointer |-> us.pointer + 1]
        ELSE [stack |-> kept, pointer |-> us.pointer + 1]

\* UndoStack.push(action) on [stack, pointer] with this maxSize.
stackPush(us, action, maxSize) ==
    LET kept == Append(SubSeq(us.stack, 1, us.pointer + 1), action)
    IN  IF Len(kept) > maxSize
        THEN [stack |-> Tail(kept), pointer |-> us.pointer]
        ELSE [stack |-> kept, pointer |-> us.pointer + 1]

canUndo(us) == us.pointer >= 0
canRedo(us) == us.pointer < Len(us.stack) - 1

-----------------------------------------------------------------------------
(* Node specification: children are added and removed, with undo and redo. *)

\* A child sequence holds up to MaxKids entries, the undo stack up to MaxUndo
\* actions (maxSize, 100 in the editor).
MaxKids == 2
MaxUndo == 2

Heap == [parent |-> nParent, kids |-> nKids]
Undos == [stack |-> nStack, pointer |-> nPtr]

InitNode ==
    /\ nParent = [n \in TreeNodes |-> NoParent]
    /\ nKids = [n \in TreeNodes |-> <<>>]
    /\ nStack = <<>>
    /\ nPtr = -1
    /\ IdleExceptNode

\* The heap and the undo stack become these.
NodeStep(heap, us) ==
    /\ nParent' = heap.parent
    /\ nKids' = heap.kids
    /\ nStack' = us.stack
    /\ nPtr' = us.pointer
    /\ UNCHANGED exceptNode

\* parent.addChild(child), pushed as an addAction when it is recorded.
AddChild(parent, child, recorded) ==
    /\ Len(nKids[parent]) < MaxKids
    /\ NodeStep(nodeAddChild(Heap, parent, child),
                IF recorded
                THEN stackPush(Undos, [kind |-> "add", parent |-> parent,
                                       child |-> child, index |-> 0], MaxUndo)
                ELSE Undos)

\* parent.removeChild(child), pushed as a removeAction with the index the
\* child had when it is recorded.
RemoveChild(parent, child, recorded) ==
    /\ recorded => indexOf(nKids[parent], child) # -1
    /\ NodeStep(nodeRemoveChild(Heap, parent, child),
                IF recorded
                THEN stackPush(Undos, [kind |-> "remove", parent |-> parent, child |-> child,
                                       index |-> indexOf(nKids[parent], child)], MaxUndo)
                ELSE Undos)

\* UndoStack.undo().
Undo ==
    /\ canUndo(Undos)
    /\ nStack[nPtr + 1].kind = "remove" => Len(nKids[nStack[nPtr + 1].parent]) < MaxKids
    /\ NodeStep(actionUndo(Heap, nStack[nPtr + 1]), [stack |-> nStack, pointer |-> nPtr - 1])

\* UndoStack.redo().
Redo ==
    /\ canRedo(Undos)
    /\ nStack[nPtr + 2].kind = "add" => Len(nKids[nStack[nPtr + 2].parent]) < MaxKids
    /\ NodeStep(actionRedo(Heap, nStack[nPtr + 2]), [stack |-> nStack, pointer |-> nPtr + 1])

NextNode ==
    \/ \E parent \in ParentNodes, child \in ChildNodes, recorded \in BOOLEAN :
           AddChild(parent, child, recorded)
    \/ \E parent \in ParentNodes, child \in ChildNodes, recorded \in BOOLEAN :
           RemoveChild(parent, child, recorded)
    \/ Undo
    \/ Redo

SpecNode == InitNode /\ [][NextNode]_vars

\* How often a child sequence lists a node.
Listed(children, node) == Cardinality({i \in 1..Len(children) : children[i] = node})

\* C16: after any sequence of addChild, removeChild, undo and redo every node
\* with a parent reference is listed exactly once in the child sequence of
\* that parent.
C16_ParentListsChildOnce ==
    \A n \in TreeNodes :
        nParent[n] # NoParent => Listed(nKids[nParent[n]], n) = 1

-----------------------------------------------------------------------------
(* Loading specification: parse_image is called on the images of an        *)
(* archive, on populated ones as well, and values are edited in between.   *)

\* The archive of TreeE1 as repack emits it.
EmittedE1 ==
    LET res == repackWzFile(TreeE1, "BMS", PopularVersion, EditorKeys["BMS"], <<>>)
    IN  [bytes |-> res.bytes, fileName |-> TreeE1.name,
         mapleVersion |-> res.mapleVersion, gameVersion |-> res.gameVersion]

LoadArchives == {FixtureArchive, EmittedE1}

\* The values an edit gives to a number.
EditValues == {0, 1, 7, 42, 100, 255}

InitLoad ==
    /\ lSrc \in LoadArchives
    /\ lDoc = parseWzFile(lSrc.bytes, lSrc.fileName, lSrc.mapleVersion, lSrc.gameVersion).root
    /\ lCall = <<>>
    /\ IdleExceptLoad

\* parse_image(image_node), whether the node is populated or not.
ParseImageCall(path) ==
    /\ NodeAt(lDoc, path).type = "image"
    /\ lDoc' = ReplaceAt(lDoc, path, parse_image(NodeAt(lDoc, path), lSrc.bytes, lSrc.mapleVersion))
    /\ lCall' = <<[path |-> path, before |-> NodeAt(lDoc, path)]>>
    /\ UNCHANGED <<lSrc, exceptLoad>>

\* editAction(node, 'value', oldVal, newVal).redo() on a number.
EditValue(path, newVal) ==
    /\ NodeAt(lDoc, path).type = "int"
    /\ NodeAt(lDoc, path).num # newVal
    /\ lDoc' = ReplaceAt(lDoc, path, [NodeAt(lDoc, path) EXCEPT !.num = newVal])
    /\ lCall' = <<>>
    /\ UNCHANGED <<lSrc, exceptLoad>>

NextLoad ==
    \/ \E path \in PathsOf(lDoc) : ParseImageCall(path)
    \/ \E path \in PathsOf(lDoc), newVal \in EditValues : EditValue(path, newVal)

SpecLoad == InitLoad /\ [][NextLoad]_vars

-----------------------------------------------------------------------------
(* wz-png.js: inflate(compressed, expectedSize).                           *)

\* What the readable side of the DecompressionStream does is the input: the
\* lengths of the chunks it hands out, and whether the read after the last
\* chunk resolves with done or rejects (a truncated or corrupt stream).
\* The k-th byte (from 0) of the inflated data.
streamByte(k) == (k % 251) + 1

\* Math.min(value.length, remaining)
minOf(a, b) == IF a < b THEN a ELSE b

\* The call stands at pc: "reading" (await reader.read()), "returned" or
\* "thrown".
\* After the loop: reader.cancel(), the warning on a short result, return.
inflateFinish(run, expectedSize) ==
    [run EXCEPT !.pc = "returned", !.warned = run.totalRead < expectedSize]

\* while (totalRead < expectedSize)
inflateLoop(run, expectedSize) ==
    IF run.totalRead < expectedSize THEN [run EXCEPT !.pc = "reading"]
    ELSE inflateFinish(run, expectedSize)

\* A read that rejects and is thrown on to the caller.
readRejectedRethrown(run, expectedSize) == [run EXCEPT !.pc = "thrown"]

\* catch {}: a read that rejects ends the loop.
readRejected(run, expectedSize) == inflateFinish(run, expectedSize)

\* result.set(value.subarray(0, toCopy), totalRead) for the chunk that
\* starts at byte pos of the inflated data.
resultSet(result, totalRead, toCopy, pos) ==
    Tup([i \in 1..Len(result) |->
           IF i > totalRead /\ i <= totalRead + toCopy
           THEN streamByte(pos + (i - totalRead) - 1)
           ELSE result[i]])

\* The body of the loop for a read that resolves with a chunk of len bytes.
readChunk(run, len, expectedSize) ==
    LET toCopy == minOf(len, expectedSize - run.totalRead)
    IN  inflateLoop([run EXCEPT !.next = @ + 1,
                                !.pos = @ + len,
                                !.result = resultSet(@, run.totalRead, toCopy, run.pos),
                                !.totalRead = @ + toCopy],
                    expectedSize)

\* reader.read() settles.
readSettled(run, input) ==
    IF run.next <= Len(input.chunks)
    THEN readChunk(run, input.chunks[run.next], input.expectedSize)
    ELSE IF input.end = "done" THEN inflateFinish(run, input.expectedSize)
    ELSE readRejected(run, input.expectedSize)

\* inflate up to the first await.
inflateStart(input) ==
    IF ~input.hasStream
    THEN [pc |-> "thrown", next |-> 1, pos |-> 0, totalRead |-> 0,
          result |-> <<>>, warned |-> FALSE]
    ELSE inflateLoop([pc |-> "reading", next |-> 1, pos |-> 0, totalRead |-> 0,
                      result |-> Tup([i \in 1..input.expectedSize |-> 0]),
                      warned |-> FALSE],
                     input.expectedSize)

-----------------------------------------------------------------------------
(* Inflate specification: one call of inflate on one stream.               *)

\* expectedSize is up to MaxExpected; the stream hands out up to MaxChunks
\* chunks of up to MaxChunk bytes.
MaxExpected == 3
MaxChunks == 2
MaxChunk == 2

ChunkLists == UNION {[1..n -> 0..MaxChunk] : n \in 0..MaxChunks}

InflateInputs ==
    [expectedSize : 0..MaxExpected, chunks : ChunkLists, end : {"done", "error"},
     hasStream : BOOLEAN]

InitInflate ==
    /\ zIn \in InflateInputs
    /\ zRun = <<>>
    /\ IdleExceptInflate

\* inflate(compressed, expectedSize) is called.
CallInflate ==
    /\ zRun = <<>>
    /\ zRun' = <<inflateStart(zIn)>>
    /\ UNCHANGED <<zIn, exceptInflate>>

\* The promise of reader.read() settles and inflate goes on.
ReadSettles ==
    /\ zRun # <<>> /\ zRun[1].pc = "reading"
    /\ zRun' = <<readSettled(zRun[1], zIn)>>
    /\ UNCHANGED <<zIn, exceptInflate>>

NextInflate == CallInflate \/ ReadSettles

SpecInflate == InitInflate /\ [][NextInflate]_vars

\* writer.close() was called, so every read of the stream settles, and the
\* event loop runs the continuation of a settled await.
SpecInflateFair == SpecInflate /\ WF_vars(ReadSettles)

RECURSIVE SumOf(_)
SumOf(lengths) == IF lengths = <<>> THEN 0 ELSE Head(lengths) + SumOf(Tail(lengths))

\* The bytes the stream produces in all.
Produced == SumOf(zIn.chunks)

Reading == zRun # <<>> /\ zRun[1].pc = "reading"
Returned == zRun # <<>> /\ zRun[1].pc = "returned"

\* No error is signalled when there is a DecompressionStream; no read is
\* awaited once the count is reached; a stream that produces the count gives
\* the first expectedSize bytes of it and no warning.
InflateSafe ==
    /\ (zRun # <<>> /\ zIn.hasStream) => zRun[1].pc # "thrown"
    /\ Reading => zRun[1].totalRead < zIn.expectedSize
    /\ (Returned /\ Produced >= zIn.expectedSize) =>
           /\ zRun[1].totalRead = zIn.expectedSize
           /\ ~zRun[1].warned
           /\ zRun[1].result = Tup([i \in 1..zIn.expectedSize |-> streamByte(i - 1)])

\* C18: inflate terminates and returns without an error once the stream has
\* produced expectedSize bytes, whether the stream then ends with done or
\* with an error; a short stream ends the call without an error as well.
C18_ReturnsWithoutError == []InflateSafe /\ (Reading ~> Returned)

\* inflate returned the full count from a stream that ends with an error.
C18_ReturnedBeforeError ==
    /\ Returned
    /\ zIn.end = "error"
    /\ zIn.expectedSize > 0
    /\ zRun[1].totalRead = zIn.expectedSize
    /\ zRun[1].next = Len(zIn.chunks) + 1

-----------------------------------------------------------------------------
(* server/src/ws.ts: RoomManager and handleClientMessage.                   *)

\* The sockets, the session ids and the maps.
Conns == {1, 2, 3}
Sessions == {"s1", "s2"}
Maps == {"m1", "m2"}

\* allClients.get(id) is undefined.
NoConn == 0

\* A server is [conn, all, rooms, auth, sent]:
\*   conn[c]   the socket c and the WSClient made for it: open, the close
\*             code, client.id ("" before auth), client.mapId and pos, the
\*             client's x, y, action and facing;
\*   all[id]   allClients: the socket whose client is registered for id;
\*   rooms[m]  the room of map m: the [id, conn] entries in insertion order
\*             (<<>>: no room);
\*   auth[m]   mobAuthority ("" : none);
\*   sent      the messages the sockets took, [to, msg], in order.

\* client.ws.send(json): a closed socket takes nothing.
sendTo(w, c, msg) ==
    IF w.conn[c].open THEN [w EXCEPT !.sent = Append(@, [to |-> c, msg |-> msg])]
    ELSE w

RECURSIVE sendEach(_, _, _, _)
\* The loop of broadcastToRoom over the entries of a room.
sendEach(w, room, msg, excludeId) ==
    IF room = <<>> THEN w
    ELSE sendEach(IF Head(room).id = excludeId THEN w ELSE sendTo(w, Head(room).conn, msg),
                  Tail(room), msg, excludeId)

\* broadcastToRoom that sends to the excluded client as well.
broadcastToRoomAndSender(w, mapId, msg, excludeId) ==
    IF mapId \notin Maps THEN w
    ELSE sendEach(w, w.rooms[mapId], msg, "")

\* broadcastToRoom(mapId, msg, excludeId); excludeId is "" when it is left out.
broadcastToRoom(w, mapId, msg, excludeId) ==
    IF mapId \notin Maps THEN w
    ELSE sendEach(w, w.rooms[mapId], msg, excludeId)

\* room.delete(id)
roomDelete(room, id) == SelectSeq(room, LAMBDA e : e.id # id)

\* room.set(id, client): an id that is there keeps its place.
roomSet(room, id, c) ==
    IF \E i \in 1..Len(room) : room[i].id = id
    THEN Tup([i \in 1..Len(room) |-> IF room[i].id = id THEN [id |-> id, conn |-> c] ELSE room[i]])
    ELSE Append(room, [id |-> id, conn |-> c])

\* The authority is given up and passes to nobody.
reassignAuthorityToNobody(w, mapId, id) ==
    IF w.auth[mapId] # id THEN w ELSE [w EXCEPT !.auth[mapId] = ""]

\* The mob authority of a map passes to the first entry of the room when the
\* client that leaves had it.
reassignAuthority(w, mapId, id) ==
    IF w.auth[mapId] # id THEN w
    ELSE IF w.rooms[mapId] = <<>> THEN [w EXCEPT !.auth[mapId] = ""]
    ELSE sendTo([w EXCEPT !.auth[mapId] = w.rooms[mapId][1].id],
                w.rooms[mapId][1].conn, [type |-> "mob_authority", active |-> TRUE])

\* removeClientFromRoom(client) for the client of socket c.
removeClientFromRoom(w, c) ==
    LET mapId == w.conn[c].mapId
        id == w.conn[c].id
    IN  IF mapId \notin Maps \/ w.rooms[mapId] = <<>> THEN w
        ELSE reassignAuthority(
                 broadcastToRoom([w EXCEPT !.rooms[mapId] = roomDelete(@, id)],
                                 mapId, [type |-> "player_leave", id |-> id], ""),
                 mapId, id)

\* addClientToRoom(client, mapId) for the client of socket c.
addClientToRoom(w, c, mapId) ==
    IF mapId = "" THEN w
    ELSE [w EXCEPT !.rooms[mapId] = roomSet(@, w.conn[c].id, c),
                   !.auth[mapId] = IF @ = "" THEN w.conn[c].id ELSE @]

\* existing.ws.close(code): a socket that is closed keeps its code.
closeSocket(w, c, code) ==
    IF w.conn[c].open THEN [w EXCEPT !.conn[c].open = FALSE, !.conn[c].code = code] ELSE w

\* addClient(client) for the client of socket c.
addClient(w, c) ==
    LET id == w.conn[c].id
        existing == w.all[id]
        left == IF existing # NoConn
                THEN removeClientFromRoom(closeSocket(w, existing, 4004), existing)
                ELSE w
    IN  addClientToRoom([left EXCEPT !.all[id] = c], c, w.conn[c].mapId)

\* removeClient that takes the client out of allClients only.
removeClientUnregistered(w, sessionId) == [w EXCEPT !.all[sessionId] = NoConn]

\* removeClient(sessionId)
removeClient(w, sessionId) ==
    IF w.all[sessionId] = NoConn THEN w
    ELSE [removeClientFromRoom(w, w.all[sessionId]) EXCEPT !.all[sessionId] = NoConn]

\* getMapState(mapId).filter(p => p.id !== sessionId): the ids of it.
otherPlayers(room, sessionId) ==
    Tup([i \in 1..Len(roomDelete(room, sessionId)) |-> roomDelete(room, sessionId)[i].id])

\* The map_state and the player_enter of changeRoom, on the server w2 that
\* holds the client c in the new room.
announceRoom(w2, c, sessionId, newMapId) ==
    broadcastToRoom(
        sendTo(w2, c, [type |-> "map_state",
                       players |-> otherPlayers(w2.rooms[newMapId], sessionId),
                       mob_authority |-> w2.auth[newMapId] = sessionId]),
        newMapId, [type |-> "player_enter", id |-> sessionId] @@ w2.conn[c].pos, sessionId)

\* changeRoom(sessionId, newMapId)
changeRoom(w, sessionId, newMapId) ==
    LET c == w.all[sessionId]
    IN  IF c = NoConn THEN w
        ELSE announceRoom(addClientToRoom([removeClientFromRoom(w, c) EXCEPT
                                               !.conn[c].mapId = newMapId],
                                          c, newMapId),
                          c, sessionId, newMapId)

\* handleClientMessage(client, msg, roomManager, db) for the client of
\* socket c.
handleClientMessage(w, c, msg) ==
    CASE msg.type = "ping" -> sendTo(w, c, [type |-> "pong"])
      [] msg.type = "move" ->
             broadcastToRoom([w EXCEPT !.conn[c].pos = [x |-> msg.x, y |-> msg.y,
                                                        action |-> msg.action,
                                                        facing |-> msg.facing]],
                             w.conn[c].mapId,
                             [type |-> "player_move", id |-> w.conn[c].id, x |-> msg.x,
                              y |-> msg.y, action |-> msg.action, facing |-> msg.facing],
                             w.conn[c].id)
      [] msg.type = "chat" ->
             broadcastToRoom(w, w.conn[c].mapId,
                             [type |-> "player_chat", id |-> w.conn[c].id, text |-> msg.text],
                             "")
      [] msg.type = "enter_map" -> changeRoom(w, w.conn[c].id, msg.map_id)
      [] msg.type = "leave_map" ->
             [removeClient(w, w.conn[c].id) EXCEPT !.conn[c].mapId = "",
                                                   !.all[w.conn[c].id] = c]
      [] OTHER -> w

-----------------------------------------------------------------------------
(* Server specification: sockets authenticate, send messages and close,   *)
(* and the heartbeat drops clients.                                        *)

\* Where a client stands before it moves.
StartPos == [x |-> 0, y |-> 0, action |-> "stand1", facing |-> 0]

Server == [conn |-> wConn, all |-> wAll, rooms |-> wRooms, auth |-> wAuth, sent |-> <<>>]

InitWs ==
    /\ wConn = [c \in Conns |-> [open |-> TRUE, code |-> 0, id |-> "", mapId |-> "",
                                  pos |-> StartPos]]
    /\ wAll = [id \in Sessions |-> NoConn]
    /\ wRooms = [m \in Maps |-> <<>>]
    /\ wAuth = [m \in Maps |-> ""]
    /\ wSent = <<>>
    /\ wLast = <<>>
    /\ IdleExceptWs

\* The events whose claims speak of the server before them: an auth for a
\* session that is registered, and the messages enter_map and leave_map.
KeepsBefore(last) ==
    \/ last.kind = "auth" /\ last.existing # NoConn
    \/ last.kind = "message" /\ last.type \in {"enter_map", "leave_map"}

\* The server becomes w after the event last; wSent holds what the event
\* sent, wLast the event and, for the events of KeepsBefore, the server
\* before it.
WsStep(w, last) ==
    /\ wConn' = w.conn
    /\ wAll' = w.all
    /\ wRooms' = w.rooms
    /\ wAuth' = w.auth
    /\ wSent' = w.sent
    /\ wLast' = <<IF KeepsBefore(last)
                   THEN last @@ [conn |-> wConn, all |-> wAll, rooms |-> wRooms]
                   ELSE last>>
    /\ UNCHANGED exceptWs

\* The socket c sends auth with a session id: a WSClient is made for it in
\* the map the server assigns and handed to addClient.
Authenticate(c, sessionId, mapId) ==
    /\ wConn[c].open /\ wConn[c].id = ""
    /\ WsStep(addClient([Server EXCEPT !.conn[c].id = sessionId, !.conn[c].mapId = mapId], c),
              [kind |-> "auth", c |-> c, type |-> "auth", existing |-> wAll[sessionId],
               msg |-> <<>>])

\* A message of an authenticated socket arrives.
ClientMessage(c, msg) ==
    /\ wConn[c].open /\ wConn[c].id # ""
    /\ WsStep(handleClientMessage(Server, c, msg),
              [kind |-> "message", c |-> c, type |-> msg.type, existing |-> NoConn,
               msg |-> msg])

\* The heartbeat finds the client of a session inactive.
HeartbeatExpire(sessionId) ==
    /\ wAll[sessionId] # NoConn
    /\ WsStep(removeClient(closeSocket(Server, wAll[sessionId], 4003), sessionId),
              [kind |-> "heartbeat", c |-> wAll[sessionId], type |-> "", existing |-> NoConn,
               msg |-> <<>>])

\* The client closes the socket c and the server takes its client out.
Disconnect(c) ==
    /\ wConn[c].open /\ wConn[c].id # ""
    /\ WsStep(removeClient(closeSocket(Server, c, 1000), wConn[c].id),
              [kind |-> "disconnect", c |-> c, type |-> "", existing |-> NoConn, msg |-> <<>>])

WsMoves == {[type |-> "move", x |-> 100, y |-> 200, action |-> "walk1", facing |-> 1]}

WsMessages ==
    {[type |-> "ping"], [type |-> "leave_map"], [type |-> "chat", text |-> "Hello world!"]}
        \cup [type : {"enter_map"}, map_id : Maps]
        \cup WsMoves

NextWs ==
    \/ \E c \in Conns, sessionId \in Sessions, mapId \in Maps : Authenticate(c, sessionId, mapId)
    \/ \E c \in Conns, msg \in WsMessages : ClientMessage(c, msg)
    \/ \E sessionId \in Sessions : HeartbeatExpire(sessionId)
    \/ \E c \in Conns : Disconnect(c)

SpecWs == InitWs /\ [][NextWs]_vars

\* The room that lists the socket c as the client of its session.
InRoom(rooms, c, id, mapId) ==
    mapId \in Maps /\ \E i \in 1..Len(rooms[mapId]) : rooms[mapId][i] = [id |-> id, conn |-> c]

\* C19: when a socket authenticates with a session id whose client is
\* connected, that socket is closed with 4006, and the first socket stays
\* open, registered and in its room.
C19_DuplicateSessionRejected ==
    (wLast # <<>> /\ wLast[1].kind = "auth" /\ wLast[1].existing # NoConn) =>
        LET first == wLast[1].existing
            second == wLast[1].c
        IN  /\ ~wConn[second].open /\ wConn[second].code = 4006
            /\ wConn[first].open
            /\ wAll[wConn[first].id] = first
            /\ wRooms = wLast[1].rooms

\* C20: enter_map and leave_map of a joined client change no room and send
\* nothing, and the client stays registered and open.
C20_MapMessagesIgnored ==
    (/\ wLast # <<>> /\ wLast[1].kind = "message"
     /\ wLast[1].type \in {"enter_map", "leave_map"}
     /\ InRoom(wLast[1].rooms, wLast[1].c, wLast[1].conn[wLast[1].c].id,
               wLast[1].conn[wLast[1].c].mapId)) =>
        /\ wRooms = wLast[1].rooms
        /\ wConn[wLast[1].c].mapId = wLast[1].conn[wLast[1].c].mapId
        /\ wSent = <<>>
        /\ wConn[wLast[1].c].open
        /\ wAll = wLast[1].all

\* The last event and the socket of it.
LastIs(kind) == wLast # <<>> /\ wLast[1].kind = kind
LastMove == LastIs("message") /\ wLast[1].type = "move"

\* The sockets a room lists for ids other than id.
OthersIn(mapId, id) ==
    IF mapId \notin Maps THEN {}
    ELSE {wRooms[mapId][i].conn : i \in {j \in 1..Len(wRooms[mapId]) : wRooms[mapId][j].id # id}}

\* How many of the messages sent went to the socket c and are msg.
SentTo(c, msg) ==
    Cardinality({i \in 1..Len(wSent) : wSent[i] = [to |-> c, msg |-> msg]})

\* C21: a move of a client is relayed as player_move with the sender's id
\* and the x, y, action and facing of the message, once to every other
\* client of the sender's room and to nobody else.
C21_MoveRelayedToOthersInRoom ==
    LastMove =>
        LET c == wLast[1].c
            msg == wLast[1].msg
            relayed == [type |-> "player_move", id |-> wConn[c].id, x |-> msg.x, y |-> msg.y,
                        action |-> msg.action, facing |-> msg.facing]
        IN  /\ \A i \in 1..Len(wSent) :
                   /\ wSent[i].msg = relayed
                   /\ wSent[i].to \in OthersIn(wConn[c].mapId, wConn[c].id)
                   /\ wSent[i].to # c
            /\ \A o \in OthersIn(wConn[c].mapId, wConn[c].id) : SentTo(o, relayed) = 1

\* A client moved in a room that holds another client, and the other one
\* took the player_move.
C21_MovedBesideAnother ==
    /\ LastMove
    /\ Len(wRooms[wConn[wLast[1].c].mapId]) = 2
    /\ Len(wSent) = 1 /\ wSent[1].to # wLast[1].c

\* The last event removed the client of a socket: a disconnect, the
\* heartbeat, or an auth that replaced it.  Removed is that socket.
LastRemoval ==
    \/ LastIs("disconnect")
    \/ LastIs("heartbeat")
    \/ LastIs("auth") /\ wLast[1].existing # NoConn

Removed == IF wLast[1].kind = "auth" THEN wLast[1].existing ELSE wLast[1].c

C28_AuthorityIsRoomMember ==
    \A m \in Maps :
        /\ wAuth[m] # "" <=> wRooms[m] # <<>>
        /\ wAuth[m] # "" => \E i \in 1..Len(wRooms[m]) : wRooms[m][i].id = wAuth[m]

\* The authority of a map left it and passed to a client that stayed.
C28_AuthorityPassedOn ==
    /\ wLast # <<>>
    /\ \E i \in 1..Len(wSent) : wSent[i].msg.type = "mob_authority"
    /\ \E m \in Maps : wAuth[m] # "" /\ wRooms[m] # <<>>

-----------------------------------------------------------------------------
(* Undo stack specification: push, undo, redo and clear on an UndoStack of  *)
(* any maxSize from 1 on (the editor takes the default, 100).              *)

\* UndoStack.undo() and redo() on [stack, pointer]; the undo and redo of the
\* action itself act on the tree, not on the stack.
stackUndo(us) == IF ~canUndo(us) THEN us ELSE [us EXCEPT !.pointer = @ - 1]
stackRedo(us) == IF ~canRedo(us) THEN us ELSE [us EXCEPT !.pointer = @ + 1]

\* UndoStack.clear()
stackClear(us) == [stack |-> <<>>, pointer |-> -1]

\* The labels of the actions pushed, and the largest maxSize.
UndoLabels == {"a", "b", "c"}
MaxStackSize == 3

UStack == [stack |-> uStack, pointer |-> uPtr]

InitUndo ==
    /\ uStack = <<>>
    /\ uPtr = -1
    /\ uMax \in 1..MaxStackSize
    /\ uLast = [kind |-> "new", action |-> "", len |-> 0, ptr |-> -1]
    /\ IdleExceptUndo

\* The stack becomes us after a call of this kind.
UndoStep(us, kind, action) ==
    /\ uStack' = us.stack
    /\ uPtr' = us.pointer
    /\ uLast' = [kind |-> kind, action |-> action, len |-> Len(uStack), ptr |-> uPtr]
    /\ UNCHANGED <<uMax, exceptUndo>>

StackPush(action) == UndoStep(stackPush(UStack, action, uMax), "push", action)
StackUndo == UndoStep(stackUndo(UStack), "undo", "")
StackRedo == UndoStep(stackRedo(UStack), "redo", "")
StackClear == UndoStep(stackClear(UStack), "clear", "")

NextUndo ==
    \/ \E action \in UndoLabels : StackPush(action)
    \/ StackUndo
    \/ StackRedo
    \/ StackClear

SpecUndo == InitUndo /\ [][NextUndo]_vars

\* C30: -1 <= pointer < stack.length <= maxSize always, and right after a
\* push the pointer designates the pushed action and nothing can be redone.
C30_PointerWithinStack ==
    /\ -1 <= uPtr /\ uPtr < Len(uStack) /\ Len(uStack) <= uMax
    /\ uLast.kind = "push" =>
           /\ uPtr = Len(uStack) - 1
           /\ uStack[uPtr + 1] = uLast.action
           /\ ~canRedo(UStack)

\* A push onto a full stack whose pointer was at the top: the oldest action
\* was shifted out.
C30_PushedOntoFullStack ==
    /\ uLast.kind = "push"
    /\ uLast.len = uMax /\ uLast.ptr = uMax - 1
    /\ uMax > 1

-----------------------------------------------------------------------------
(* server/src/ws.ts: the drops of a map (addDrop, removeDrop,               *)
(* sweepExpiredDrops) and the drop_item and loot_item messages.            *)

DROP_EXPIRE_MS == 180000

\* A drop server is a server with drops[m], the drops of map m in insertion
\* order (<<>>: no entry in mapDrops), and next, _nextDropId.

\* addDrop(mapId, drop) at the time now; the drop made is the last of the map.
addDrop(w, mapId, drop, now) ==
    [w EXCEPT !.next = @ + 1,
              !.drops[mapId] = Append(@, drop @@ [drop_id |-> w.next, created_at |-> now])]

\* drops.get(dropId): <<>> or the drop in a sequence.
dropOf(drops, dropId) == SelectSeq(drops, LAMBDA d : d.drop_id = dropId)

\* removeDrop that hands the drop out and leaves it in the map.
removeDropKept(w, mapId, dropId) == w

\* removeDrop(mapId, dropId): the server after it; what it returns is
\* dropOf before it.
removeDrop(w, mapId, dropId) ==
    [w EXCEPT !.drops[mapId] = SelectSeq(@, LAMBDA d : d.drop_id # dropId)]

\* case "drop_item" of handleClientMessage for the client of socket c.
dropItem(w, c, msg, now) ==
    LET made == addDrop(w, w.conn[c].mapId,
                        [item_id |-> msg.item_id, owner_id |-> w.conn[c].id], now)
    IN  broadcastToRoom(made, w.conn[c].mapId,
                        [type |-> "drop_spawn",
                         drop |-> made.drops[w.conn[c].mapId][Len(made.drops[w.conn[c].mapId])]],
                        "")

\* case "loot_item" of handleClientMessage for the client of socket c.
lootItem(w, c, msg) ==
    LET looted == dropOf(w.drops[w.conn[c].mapId], msg.drop_id)
    IN  IF looted = <<>> THEN w
        ELSE broadcastToRoom(removeDrop(w, w.conn[c].mapId, msg.drop_id), w.conn[c].mapId,
                             [type |-> "drop_loot", drop_id |-> msg.drop_id,
                              looter_id |-> w.conn[c].id, item_id |-> looted[1].item_id],
                             "")

RECURSIVE expireEach(_, _, _)
\* The second loop of sweepExpiredDrops over the expired drops of a map.
expireEach(w, mapId, expired) ==
    IF expired = <<>> THEN w
    ELSE expireEach(broadcastToRoom(removeDrop(w, mapId, Head(expired).drop_id), mapId,
                                    [type |-> "drop_expire", drop_id |-> Head(expired).drop_id],
                                    ""),
                    mapId, Tail(expired))

RECURSIVE sweepMaps(_, _, _)
\* sweepExpiredDrops() at the time now over these maps.
sweepMaps(w, maps, now) ==
    IF maps = <<>> THEN w
    ELSE sweepMaps(expireEach(w, Head(maps),
                              SelectSeq(w.drops[Head(maps)],
                                        LAMBDA d : now - d.created_at >= DROP_EXPIRE_MS)),
                   Tail(maps), now)

\* The maps are swept in this order; the rooms share no socket.
sweepExpiredDrops(w, now) == sweepMaps(w, <<"m1", "m2">>, now)

-----------------------------------------------------------------------------
(* Drop specification: three clients drop and loot items while the sweep   *)
(* runs and the clock goes on.                                             *)

\* The drops made, the ticks of the clock and the length of a tick.
MaxDrops == 2
MaxTicks == 2
TickMs == 90000

\* Two clients in the room of m1 and one in the room of m2.
DropConns ==
    [c \in Conns |-> [open |-> TRUE, id |-> <<"s1", "s2", "s3">>[c],
                      mapId |-> <<"m1", "m1", "m2">>[c]]]
DropRooms ==
    [m \in Maps |-> IF m = "m1" THEN <<[id |-> "s1", conn |-> 1], [id |-> "s2", conn |-> 2]>>
                    ELSE <<[id |-> "s3", conn |-> 3]>>]

DropServer ==
    [conn |-> DropConns, rooms |-> DropRooms, drops |-> dDrops, next |-> dNext, sent |-> dSent]

InitDrop ==
    /\ dDrops = [m \in Maps |-> <<>>]
    /\ dNext = 1
    /\ dNow = 0
    /\ dSent = <<>>
    /\ dIds = <<>>
    /\ dLast = [kind |-> "start", drop_id |-> 0, sent |-> 0]
    /\ IdleExceptDrop

\* The server becomes w after an event of this kind about this drop id.
DropStep(w, kind, dropId) ==
    /\ dDrops' = w.drops
    /\ dNext' = w.next
    /\ dSent' = w.sent
    /\ dIds' = IF kind = "drop_item" THEN Append(dIds, dropId) ELSE dIds
    /\ dLast' = [kind |-> kind, drop_id |-> dropId, sent |-> Len(dSent)]
    /\ UNCHANGED <<dNow, exceptDrop>>

\* A drop_item message of the client of socket c arrives.
DropItem(c) ==
    /\ dNext <= MaxDrops
    /\ DropStep(dropItem(DropServer, c, [type |-> "drop_item", item_id |-> 2000000], dNow),
                "drop_item", dNext)

\* A loot_item message of the client of socket c arrives.
LootItem(c, dropId) ==
    DropStep(lootItem(DropServer, c, [type |-> "loot_item", drop_id |-> dropId]),
             "loot_item", dropId)

\* The interval timer runs sweepExpiredDrops.
Sweep == DropStep(sweepExpiredDrops(DropServer, dNow), "sweep", 0)

\* Time passes.
Tick ==
    /\ dNow < MaxTicks * TickMs
    /\ dNow' = dNow + TickMs
    /\ UNCHANGED <<dDrops, dNext, dSent, dIds, dLast, exceptDrop>>

NextDrop ==
    \/ \E c \in Conns : DropItem(c)
    \/ \E c \in Conns, dropId \in 1..MaxDrops : LootItem(c, dropId)
    \/ Sweep
    \/ Tick

SpecDrop == InitDrop /\ [][NextDrop]_vars

\* How many drop_loot and drop_expire messages for a drop id a socket took.
LeftMessages(c, dropId) ==
    Cardinality({i \in 1..Len(dSent) :
                    /\ dSent[i].to = c
                    /\ dSent[i].msg.type \in {"drop_loot", "drop_expire"}
                    /\ dSent[i].msg.drop_id = dropId})

\* C29: no socket takes more than one drop_loot or drop_expire for a drop
\* id, a drop that was announced as gone is in no map, and no drop id is
\* handed out twice.
C29_DropLeavesOnce ==
    /\ \A c \in Conns, dropId \in 1..MaxDrops :
           /\ LeftMessages(c, dropId) <= 1
           /\ LeftMessages(c, dropId) = 1 =>
                  \A m \in Maps : dropOf(dDrops[m], dropId) = <<>>
    /\ \A i, j \in 1..Len(dIds) : dIds[i] = dIds[j] => i = j

\* A loot_item for a drop that had left the map already (looted or
\* expired) arrived and was answered with nothing.
C29_LootedTwice ==
    /\ dLast.kind = "loot_item"
    /\ Len(dSent) = dLast.sent
    /\ \E c \in Conns : LeftMessages(c, dLast.drop_id) = 1

-----------------------------------------------------------------------------
(* The image offsets of the layout pass against the emit pass.             *)

\* C23: for every image of a repacked tree the offset assigned by
\* setImgOffsets is the position writeImageData writes the first byte of
\* its blob at, also in a tree with subdirectories.
C23_ImageOffsetIsEmitPosition ==
    (out # <<>> /\ ~out[1].res.err)
        => \A i \in 1..Len(out[1].res.log) :
               out[1].res.log[i].kind = "image"
                   => NodeAt(out[1].res.tree, out[1].res.log[i].path).wzOffset
                          = out[1].res.log[i].at

RECURSIVE NamedKinds(_, _)
\* The entries of a directory tree as [names, type]: the names from the
\* root down to the entry and the kind of the entry.
NamedKinds(node, names) ==
    UNION {{[names |-> Append(names, node.children[i].name), type |-> node.children[i].type]}
               \cup (IF node.children[i].type = "dir"
                     THEN NamedKinds(node.children[i], Append(names, node.children[i].name))
                     ELSE {})
           : i \in 1..Len(node.children)}

\* C26: every directory entry of a repacked tree is read back with its
\* kind, a dir as a dir and an image as an image, also when its name was
\* written in the deduplicated offset form.
C26_EntryKindsKept ==
    (back # <<>> /\ ~back[1].err) => NamedKinds(back[1].root, <<>>) = NamedKinds(doc, <<>>)

-----------------------------------------------------------------------------
(* Long properties beyond 32 bits.  A JS number that is an integer is      *)
(* [neg, mag]: the sign and the magnitude as four limbs of 16 bits, the    *)
(* lowest first (-0 does not occur).  A word of 32 bits is two limbs.      *)

Limb == 256 * 256

RECURSIVE BitLen(_)
\* The number of bits of a limb: 0 for 0.
BitLen(x) == IF x = 0 THEN 0 ELSE 1 + BitLen(x \div 2)

RECURSIVE TwoTo(_)
TwoTo(k) == IF k = 0 THEN 1 ELSE 2 * TwoTo(k - 1)

RECURSIVE LowZeros(_)
\* The number of zero bits below the lowest set bit of a limb that is not 0.
LowZeros(x) == IF x % 2 = 1 THEN 0 ELSE 1 + LowZeros(x \div 2)

TopLimb(mag) == CHOOSE i \in 1..Len(mag) : mag[i] # 0 /\ \A j \in (i + 1)..Len(mag) : mag[j] = 0
LowLimb(mag) == CHOOSE i \in 1..Len(mag) : mag[i] # 0 /\ \A j \in 1..(i - 1) : mag[j] = 0
IsZero(mag) == \A i \in 1..Len(mag) : mag[i] = 0

\* The bits of a magnitude, and the bits from its highest to its lowest
\* set bit.
BitLength(mag) == IF IsZero(mag) THEN 0 ELSE 16 * (TopLimb(mag) - 1) + BitLen(mag[TopLimb(mag)])
BitSpan(mag) ==
    IF IsZero(mag) THEN 0
    ELSE BitLength(mag) - (16 * (LowLimb(mag) - 1) + LowZeros(mag[LowLimb(mag)]))

RECURSIVE AddAt(_, _, _)
\* mag + x * 2^(16 * (i - 1)) for x up to a limb; a carry out of the last
\* limb does not occur for the magnitudes of the model.
AddAt(mag, i, x) ==
    IF x = 0 \/ i > Len(mag) THEN mag
    ELSE AddAt([mag EXCEPT ![i] = (@ + x) % Limb], i + 1, (mag[i] + x) \div Limb)

\* The double nearest to an integer magnitude: 53 bits are kept, a tie goes
\* to the even neighbour.  At most 11 bits go, all of them in the first limb.
RoundToDouble(mag) ==
    IF BitLength(mag) <= 53 THEN mag
    ELSE LET k    == BitLength(mag) - 53
             rem  == mag[1] % TwoTo(k)
             base == [mag EXCEPT ![1] = @ - rem]
             odd  == (mag[1] \div TwoTo(k)) % 2 = 1
         IN  IF rem > TwoTo(k - 1) \/ (rem = TwoTo(k - 1) /\ odd)
             THEN AddAt(base, 1, TwoTo(k))
             ELSE base

\* -a modulo 2^32 for a word a.
Neg32(a) ==
    IF a = <<0, 0>> THEN a
    ELSE IF a[1] = 0 THEN <<0, (Limb - a[2]) % Limb>>
    ELSE <<Limb - a[1], Limb - 1 - a[2]>>

\* The four little-endian bytes of a word, and the word of four bytes.
WordBytes(a) == <<a[1] % 256, a[1] \div 256, a[2] % 256, a[2] \div 256>>
BytesWord(b) == <<b[1] + 256 * b[2], b[3] + 256 * b[4]>>

\* ToInt32(v) as the word setUint32 or setInt32 stores: v modulo 2^32.
ToWord(v) ==
    IF v.neg THEN Neg32(<<v.mag[1], v.mag[2]>>) ELSE <<v.mag[1], v.mag[2]>>

\* Math.floor(v / 0x100000000): the division is exact, a negative quotient
\* with a remainder goes down.
floorDiv2p32(v) ==
    IF v.neg /\ (v.mag[1] # 0 \/ v.mag[2] # 0)
    THEN [neg |-> TRUE, mag |-> AddAt(<<v.mag[3], v.mag[4], 0, 0>>, 1, 1)]
    ELSE [neg |-> v.neg /\ (v.mag[3] # 0 \/ v.mag[4] # 0), mag |-> <<v.mag[3], v.mag[4], 0, 0>>]

\* v | 0: ToInt32(v) as a number.
orZero(v) ==
    IF ToWord(v)[2] >= 32768
    THEN [neg |-> TRUE, mag |-> Neg32(ToWord(v)) \o <<0, 0>>]
    ELSE [neg |-> FALSE, mag |-> ToWord(v) \o <<0, 0>>]

\* BinaryBuffer.writeInt64(v) for a number v.
writeInt64Number(w, v) ==
    writeWord(writeWord(w, WordBytes(ToWord(v))), WordBytes(ToWord(floorDiv2p32(v))))

\* v > 127 || v <= -128
isLongForm(v) ==
    \/ v.mag[2] # 0 \/ v.mag[3] # 0 \/ v.mag[4] # 0
    \/ v.mag[1] > 127

\* writeCompressedLong(v) for a number v.
writeCompressedLongNumber(w, v) ==
    IF isLongForm(v) THEN writeInt64Number(writeSByte(w, -128), v)
    ELSE writeSByte(w, IF v.neg THEN -v.mag[1] ELSE v.mag[1])

\* hi * 0x100000000 + lo for the Uint32 lo and the word of hi taken as
\* signed or not: the product is exact and the sum is rounded once.
joinWords(lo, hi, signed) ==
    IF signed /\ hi[2] >= 32768
    THEN [neg |-> TRUE,
          mag |-> RoundToDouble(
                      IF lo = <<0, 0>>
                      THEN <<0, 0, Neg32(hi)[1], Neg32(hi)[2]>>
                      ELSE <<Neg32(lo)[1], Neg32(lo)[2]>>
                               \o Neg32(AddAt(<<hi[1], hi[2]>>, 1, 1)))]
    ELSE [neg |-> FALSE, mag |-> RoundToDouble(lo \o hi)]

\* readUInt64() as a number.
readUInt64Number(r) ==
    LET lo == readWord(r)
        hi == readWord(lo.r)
    IN  [r |-> hi.r, v |-> joinWords(BytesWord(lo.v), BytesWord(hi.v), FALSE)]

\* readInt64() as a number.
readInt64Number(r) ==
    LET lo == readWord(r)
        hi == readWord(lo.r)
    IN  [r |-> hi.r, v |-> joinWords(BytesWord(lo.v), BytesWord(hi.v), TRUE)]

\* readCompressedLong() as a number.
readCompressedLongNumber(r) ==
    LET sb == readSByte(r)
    IN  IF sb.v = -128 THEN readInt64Number(sb.r)
        ELSE [r |-> sb.r,
              v |-> [neg |-> sb.v < 0, mag |-> <<IF sb.v < 0 THEN -sb.v ELSE sb.v, 0, 0, 0>>]]

-----------------------------------------------------------------------------
(* Long specification: a long property of the tree is written              *)
(* (writePropertyValue, case 'long') and parsed back (parsePropertyList,   *)
(* case 20).                                                               *)

\* The limbs the values of the model are made of, lowest limb first.
LimbChoices ==
    <<{0, 1, 127, 128, 129, 65535}, {0, 1, 32767, 32768, 65535}, {0, 1, 65535},
      {0, 1, 31, 32, 16384, 32767, 32768}>>

\* The numbers that are signed 64-bit integers: doubles (at most 53 bits
\* from the highest to the lowest set bit) from -2^63 to below 2^63.
LongValues ==
    {v \in [neg : BOOLEAN,
            mag : {<<a, b, c, d>> : a \in LimbChoices[1], b \in LimbChoices[2],
                                    c \in LimbChoices[3], d \in LimbChoices[4]}] :
        /\ v.neg => ~IsZero(v.mag)
        /\ BitSpan(v.mag) <= 53
        /\ BitLength(v.mag) <= 63 \/ (v.neg /\ v.mag = <<0, 0, 0, 32768>>)}

InitLong ==
    /\ qIn \in LongValues
    /\ qBuf = <<>> /\ qOut = <<>>
    /\ IdleExceptLong

\* case 'long' of writePropertyValue: the type byte 20 and
\* writeCompressedLong(node.value | 0).
WriteLong ==
    /\ qBuf = <<>>
    /\ qBuf' = <<writeCompressedLongNumber(
                     writeByte(NewWriter(generateWzKey(WZ_BMSIV), U32FromNat(0), 0), 20),
                     orZero(qIn)).buf>>
    /\ UNCHANGED <<qIn, qOut, exceptLong>>

\* parsePropertyList on the type byte: case 20 makes a long node.
ParseLong ==
    /\ qBuf # <<>> /\ qOut = <<>>
    /\ \E pt \in {readByte(NewReader(qBuf[1], generateWzKey(WZ_BMSIV), 0))} :
           \E x \in {IF pt.v = 20 THEN readCompressedLongNumber(pt.r)
                     ELSE [r |-> Failed(pt.r), v |-> <<>>]} :
               qOut' = <<[type |-> "long", value |-> x.v, pos |-> x.r.pos, err |-> x.r.err]>>
    /\ UNCHANGED <<qIn, qBuf, exceptLong>>

NextLong == WriteLong \/ ParseLong

SpecLong == InitLong /\ [][NextLong]_vars

\* C24: a long property whose value is a signed 64-bit integer is parsed
\* back from the bytes written for it as a long node with that value, the
\* bytes read to their end, also outside the signed 32-bit range.
C24_LongRoundTrip ==
    qOut # <<>> =>
        /\ ~qOut[1].err
        /\ qOut[1].type = "long"
        /\ qOut[1].value = qIn
        /\ qOut[1].pos = Len(qBuf[1])

-----------------------------------------------------------------------------
(* Parser specification: parsePropertyList on a property list whose first  *)
(* entry is an extended block (tag 9).  The length prefix of the block is  *)
(* the length of its body, or more (bytes follow the body inside the       *)
(* block), or less (the body runs past the recorded end).                  *)

\* The length prefix exceeds the body by up to MaxPad bytes and falls short
\* of it by up to MaxCut bytes.
MaxPad == 2
MaxCut == 2

S_Bogus == <<66, 111, 103, 117, 115, 35, 84, 121, 112, 101>>     \* "Bogus#Type"
N_e1    == <<101>>                                               \* "e"
N_a     == <<97>>                                                \* "a"
N_ab    == <<97, 98>>                                            \* "ab"

VectorNode(name, x, y) == [WzNode(name, "vector") EXCEPT !.x = x, !.y = y]

UolNode(name, target) == [WzNode(name, "uol") EXCEPT !.str = target]

\* The blocks of a known extended type, as the node the block encodes.
KnownBlocks ==
    { VectorNode(N_e1, 3, 4),
      VectorNode(N_e1, 200, -5),
      Built(N_e1, "sub", <<>>),
      Built(N_e1, "sub", <<IntNode(N_a, 1)>>),
      UolNode(N_e1, N_ab),
      Built(N_e1, "canvas", <<>>),
      Built(N_e1, "convex", <<VectorNode(Digits(0), 1, 2), VectorNode(Digits(1), 3, 4)>>),
      Built(N_e1, "convex", <<VectorNode(Digits(0), 1, 2), Built(Digits(1), "sub", <<>>)>>),
      Built(N_e1, "convex", <<UolNode(Digits(0), N_ab)>>) }

\* The bytes that follow the type name of a block of an unknown type.
UnknownBodies == {<<>>, <<9>>, <<1, 2, 3>>}

\* A block is [node, junk]: node is <<n>> for a known type and <<>> for the
\* unknown one.
ParseBlocks ==
    {[node |-> <<n>>, junk |-> <<>>] : n \in KnownBlocks}
        \cup {[node |-> <<>>, junk |-> j] : j \in UnknownBodies}

\* The body of the block on the writer w.
blockBody(w, block) ==
    IF block.node # <<>> THEN writeExtendedValue(w, block.node[1])
    ELSE writeBytes(writeStringValue(w, S_Bogus, WZ_IMG_HEADER_WITHOUT_OFFSET,
                                     WZ_IMG_HEADER_WITH_OFFSET),
                    block.junk)

\* n bytes after the body, inside the block.
padBytes(n) == Tup([i \in 1..n |-> 9])

\* The int entry n = 42 that follows the block.
followingEntry(w) == writeCompressedInt(writeByte(writeStringValue(w, N_n, 0, 1), 3), 42)

\* The list from the length prefix on: w holds the count, the name and the
\* tag, body is w with four bytes and the body of the block.
craftedFrom(w, body, block, delta, follow) ==
    LET declared == WriterPos(body) - WriterPos(w) - 4 + delta
        padded   == IF delta > 0 THEN writeBytes(body, padBytes(delta)) ELSE body
        sized    == setInt32(padded, WriterPos(w), declared)
    IN  [bytes  |-> (IF follow THEN followingEntry(sized) ELSE sized).buf,
         eob    |-> WriterPos(w) + 4 + declared,
         stop   |-> WriterPos(body),
         follow |-> follow,
         type   |-> IF block.node # <<>> THEN block.node[1].type ELSE "",
         delta  |-> delta]

craftedOn(w, block, delta, follow) ==
    craftedFrom(w, blockBody(writeInt32(w, 0), block), block, delta, follow)

\* A property list of one extended entry "e" and, with follow, the int
\* entry after it.
Crafted(block, delta, follow) ==
    craftedOn(writeByte(writeStringValue(
                            writeCompressedInt(NewWriter(EditorKeys["BMS"], U32FromNat(0), 0),
                                               IF follow THEN 2 ELSE 1),
                            N_e1, 0, 1),
                        9),
              block, delta, follow)

\* An entry follows the block only when the block holds its whole body.
ParseInputs ==
    {Crafted(block, delta, FALSE) : block \in ParseBlocks, delta \in (-MaxCut)..MaxPad}
        \cup {Crafted(block, delta, TRUE) : block \in ParseBlocks, delta \in 0..MaxPad}

InitParse ==
    /\ pIn \in ParseInputs
    /\ pOut = <<>>
    /\ IdleExceptParse

\* parsePropertyList(reader, 0) with a reader over the bytes; err is the
\* RangeError of a read past the end.
Parse ==
    /\ pOut = <<>>
    /\ \E res \in {parsePropertyList(NewReader(pIn.bytes, EditorKeys["BMS"], 0), 0)} :
           pOut' = <<[nodes |-> res.v, pos |-> res.r.pos, err |-> res.r.err]>>
    /\ UNCHANGED <<pIn, exceptParse>>

NextParse == Parse

SpecParse == InitParse /\ [][NextParse]_vars

\* The nodes the block is to give: one of its type and name, or none.
BlockGaveItsNode ==
    IF pIn.type = "" THEN TRUE
    ELSE pOut[1].nodes # <<>> /\ pOut[1].nodes[1].type = pIn.type
                              /\ pOut[1].nodes[1].name = N_e1

C27_ConvexChildrenAreVectors ==
    pOut # <<>> =>
        \A i \in 1..Len(pOut[1].nodes) :
            pOut[1].nodes[i].type = "convex" =>
                \A k \in 1..Len(pOut[1].nodes[i].children) :
                    pOut[1].nodes[i].children[k].type = "vector"

====
